---- MODULE Spec2Model ----
(***************************************************************************)
(* Model of the retrieval-augmented context engine of super-roast-bot:     *)
(*   utils/token_guard.py  importance-aware trimming (trim_chat_history)   *)
(*   memory.py             the scored memory store (_store)                *)
(*   app.py / api.py       the chat turn handlers                          *)
(*   rag.py                lazy index construction and retrieval           *)
(* Every specification below shares one set of variables; a specification  *)
(* leaves the variables of the components it does not exercise unchanged.  *)
(***************************************************************************)
EXTENDS Integers, Sequences, FiniteSets, TLC

VARIABLES
    chat_history,   \* trim_chat_history: the list passed in
    max_tokens,     \* trim_chat_history: the token budget
    working,        \* trim_chat_history: the mutable copy
    trim_pc,        \* trim_chat_history: "start" | "loop" | "done" | "raised"
    trim_result,    \* trim_chat_history: the returned list of {role, content}
    trim_iters,     \* history: iterations of the removal loop entered
    store,          \* memory._store: the deque of ScoredMessage
    mem_log,        \* history: every entry appended to _store since the last clear
    mem_calls,      \* history: number of memory operations performed
    corpus,         \* rag: the chunks load_and_chunk() yields from the data folder
    rag_lock,       \* rag._rag_lock: the thread holding it, or "free"
    rag_initialized,\* rag._rag_initialized
    global_model,   \* rag._global_model: "None" or "model"
    global_index,   \* rag._global_index: <<>> (None) or the chunk embeddings
    global_chunks,  \* rag._global_chunks: <<>> (None) or the chunk list
    rag_pc,         \* per thread: position in retrieve_context
    rag_query,      \* per thread: [query, top_k] of the running call
    rag_embedding,  \* per thread: query_embedding
    rag_result,     \* per thread: the list of chunks joined into the result
    rag_calls,      \* history, per thread: calls started
    model_loads,    \* history: SentenceTransformer(...) constructions run
    index_builds,   \* history: build_index runs
    index_sets,     \* history: assignments to _global_index, _global_chunks
    init_failures,  \* history: initialisation attempts that raised
    api_pc,         \* per thread: position in api.chat_endpoint
    api_req,        \* per thread: [client, message] of the request served
    api_history,    \* per thread: history = format_memory()
    api_reply,      \* per thread: the completion's reply
    api_response,   \* per thread: what the endpoint answered
    api_calls,      \* history, per thread: requests served
    sess_profile,   \* st.session_state.user_profile: <<>> if absent, else <<profile>>
    sess_messages,  \* st.session_state.messages
    db_profile,     \* the session's row of table user_profiles: <<>> or <<dict>>
    db_chat,        \* the session's rows of table chat_history
    app_pc,         \* position in app.chat
    app_input,      \* user_input after validation
    app_importance, \* importance returned by profile.update
    app_messages,   \* the messages built for the completion call
    app_reply,      \* the completion's reply text ("None" while there is none)
    app_result,     \* what chat returned
    app_turns,      \* history: calls of chat and chat_stream made
    app_caller,     \* who called: "ui" (the chat input block) or "direct"
    app_streaming,  \* TRUE while the turn runs chat_stream, FALSE for chat
    app_yielded,    \* the strings chat_stream has yielded
    app_parts,      \* reply_parts of chat_stream
    app_deltas,     \* chunks received from the completion stream
    app_before,     \* history: store, database rows and profile when the turn began
    app_raw,        \* history: the argument the turn was called with
    app_completions, \* history: completion calls made in the turn
    db_last,        \* history: the last database operation and whether it raised
    prof,           \* profile: a UserProfile object a caller holds
    prof_last,      \* profile: the method called last on it
    prof_score,     \* profile: what update returned
    prof_snippet,   \* profile: what to_prompt_snippet returned
    prof_dict,      \* profile: what to_dict returned (<<>>: not called last)
    prof_copy,      \* profile: what from_dict(to_dict()) returned (<<>>: same)
    prof_calls      \* history: update calls made

trimVars == <<chat_history, max_tokens, working, trim_pc, trim_result, trim_iters>>
memVars == <<store, mem_log, mem_calls>>

ragVars == <<corpus, rag_lock, rag_initialized, global_model, global_index,
             global_chunks, rag_pc, rag_query, rag_embedding, rag_result,
             rag_calls, model_loads, index_builds, index_sets, init_failures>>

apiVars == <<api_pc, api_req, api_history, api_reply, api_response, api_calls>>

appVars == <<sess_profile, sess_messages, db_profile, db_chat, app_pc, app_input,
             app_importance, app_messages, app_reply, app_result, app_turns,
             app_caller, app_streaming, app_yielded, app_parts, app_deltas,
             app_before, app_raw, app_completions, db_last>>

profVars == <<prof, prof_last, prof_score, prof_snippet, prof_dict, prof_copy,
              prof_calls>>

vars == <<trimVars, memVars, ragVars, apiVars, appVars, profVars>>

\* What each component's actions leave unchanged.
allButTrim == <<memVars, ragVars, apiVars, appVars, profVars>>
allButMem == <<trimVars, ragVars, apiVars, appVars, profVars>>
allButRag == <<trimVars, memVars, apiVars, appVars, profVars>>
allButProf == <<trimVars, memVars, ragVars, apiVars, appVars>>

\* ------------------------------------------------------------------ bounds

MaxLen == 4
MaxMemCalls == 4
MaxRagCalls == 2
MaxApiCalls == 2
MaxTurns == 2
MaxFairCalls == 1
MaxProfileCalls == 4

\* ------------------------------------------------------------ text domain

\* len(text.split()) of every text the model uses.
Words(text) ==
    CASE text = ""               -> 0
      [] text = "ok"             -> 1
      [] text = "fix my bug now" -> 4
      [] text = "nice try"       -> 2
      [] text = "I am a Python developer"   -> 5
      [] text = "why does my code hate me?" -> 6
      [] text = "I built my app and I know my code" -> 9
      [] text = "You call that code? My toaster writes better." -> 8
      [] OTHER                   -> 1

Roles == {"user", "assistant"}
Importances == {1, 5}
TrimContents == {"ok", "fix my bug now"}
Budgets == {0, 6, 12}

\* memory.ScoredMessage and the legacy plain dict {role, content}.
ScoredMessages ==
    [kind : {"scored"}, role : Roles, content : TrimContents, importance : Importances]
DictMessages ==
    [kind : {"dict"}, role : Roles, content : TrimContents]

ScoredMessage(role, content, importance) ==
    [kind |-> "scored", role |-> role, content |-> content, importance |-> importance]

\* ------------------------------------------------- utils/token_guard.py

PROTECTED_TAIL == 2
MIN_MESSAGES == 2

\* _WordCountTokenizer.encode: int(len(text.split()) * 1.3 + 0.5) tokens.
WordCountTokens(nwords) == (13 * nwords + 5) \div 10

GetContent(msg) == msg.content

GetImportance(msg) == IF msg.kind = "scored" THEN msg.importance ELSE 1

\* Mutant of ToDict: every message takes the str(msg) branch, role "user".
ToDictAsUser(msg) == [role |-> "user", content |-> msg.content]

ToDict(msg) == [role |-> msg.role, content |-> msg.content]

\* Mutant of ToDicts: the result is built back to front.
ToDictsReversed(messages) ==
    [i \in 1..Len(messages) |-> ToDict(messages[Len(messages) + 1 - i])]

\* [_to_dict(m) for m in working]
ToDicts(messages) == [i \in 1..Len(messages) |-> ToDict(messages[i])]

RECURSIVE SumWords(_)
SumWords(messages) ==
    IF messages = <<>> THEN 0
    ELSE Words(GetContent(Head(messages))) + SumWords(Tail(messages))

\* " ".join of the non-empty contents, then len(tokenizer.encode(text)).
CountTokensList(messages) == WordCountTokens(SumWords(messages))

\* Mutant of PopAt: the list is handed back as it was.
PopAtKeeps(s, i) == s

\* working.pop(i), with i counted from 1.
PopAt(s, i) == [j \in 1..(Len(s) - 1) |-> IF j < i THEN s[j] ELSE s[j + 1]]

\* Mutant of Candidates: the protected tail is not left out.
CandidatesWholeList(w) == 1..Len(w)

\* candidates = list(range(len(working) - PROTECTED_TAIL)), counted from 1.
Candidates(w) == 1..(Len(w) - PROTECTED_TAIL)

\* Mutant of DropIdx: the oldest candidate is dropped, whatever its importance.
DropIdxOldest(w) ==
    CHOOSE i \in Candidates(w) : \A j \in Candidates(w) : i <= j

\* min(candidates, key=lambda i: (importance, i))
DropIdx(w) ==
    CHOOSE i \in Candidates(w) :
        \A j \in Candidates(w) :
            \/ GetImportance(w[i]) < GetImportance(w[j])
            \/ GetImportance(w[i]) = GetImportance(w[j]) /\ i <= j

Complementary(role, next_role) ==
    \/ role = "user" /\ next_role = "assistant"
    \/ role = "assistant" /\ next_role = "user"

\* Mutant of OverBudget: the floor test is off by one.
OverBudgetOffByOne(w, budget) ==
    CountTokensList(w) > budget /\ Len(w) > MIN_MESSAGES + 1

\* Mutant of OverBudget: the floor is one message.
OverBudgetFloorOne(w, budget) ==
    CountTokensList(w) > budget /\ Len(w) > 1

\* The while condition of both loops.
OverBudget(w, budget) ==
    CountTokensList(w) > budget /\ Len(w) > MIN_MESSAGES

\* Mutant of LoopExits: the loop also breaks when one candidate is left.
LoopExitsOneEarly(w, budget) ==
    ~OverBudget(w, budget) \/ Len(w) <= PROTECTED_TAIL + 1

\* The importance-aware loop is left: its while condition fails, or
\* "if not candidates: break".
LoopExits(w, budget) == ~OverBudget(w, budget) \/ Candidates(w) = {}

\* getattr(next_msg, "role", next_msg.get("role", "user")): the default is
\* evaluated first, and a ScoredMessage has no .get.
NextRoleRaises(next_msg) == next_msg.kind = "scored"

\* One iteration of the importance-aware loop: the new working list, or the
\* AttributeError of the next_role lookup.
ImportanceIter(w) ==
    LET drop == DropIdx(w)
        nxt  == drop + 1
    IN  IF nxt <= Len(w) /\ nxt \notin Candidates(w)
        THEN IF NextRoleRaises(w[nxt])
             THEN [raised |-> TRUE, w |-> w]
             ELSE IF Complementary(w[drop].role, w[nxt].role)
                     /\ Len(w) > MIN_MESSAGES + 1
                  THEN [raised |-> FALSE, w |-> PopAt(PopAt(w, nxt), drop)]
                  ELSE [raised |-> FALSE, w |-> PopAt(w, drop)]
        ELSE [raised |-> FALSE, w |-> PopAt(w, drop)]

\* The hard recency fallback loop: working.pop(0) while still over budget.
RECURSIVE RecencyFallback(_, _)
RecencyFallback(w, budget) ==
    IF OverBudget(w, budget) THEN RecencyFallback(Tail(w), budget) ELSE w

\* Mutant of CallerList: working is the list passed in itself, not a copy.
CallerListShared(passed, w) == w

\* working = list(chat_history): the pops go to the copy w, and the list
\* the caller passed in holds what it held.
CallerList(passed, w) == passed

\* ---- trim_chat_history, one action per position in the function

\* The history of test_comprehensive.py's TEST 5, by importance
\* [1, 1, 10, 10, 2, 2, 5, 5], every content one word.
TestHistory ==
    <<ScoredMessage("user", "ok", 1), ScoredMessage("assistant", "ok", 1),
      ScoredMessage("user", "ok", 10), ScoredMessage("assistant", "ok", 10),
      ScoredMessage("user", "ok", 2), ScoredMessage("assistant", "ok", 2),
      ScoredMessage("user", "ok", 5), ScoredMessage("assistant", "ok", 5)>>

TrimInputs ==
    UNION {[1..n -> ScoredMessages] : n \in 0..MaxLen}
    \cup UNION {[1..n -> DictMessages] : n \in 1..MaxLen}
    \cup {TestHistory}

RagThreads == {"t1", "t2"}

\* Per thread, before a call: no query, and no result yet.
NoQuery == [query |-> "None", top_k |-> 0]
NoResult == [raised |-> "None", chunks |-> <<>>]

\* What a call ended with: the chunks it returned, or the error it raised.
Returned(chunks) == [raised |-> "None", chunks |-> chunks]
Raised(error) == [raised |-> error, chunks |-> <<>>]

\* rag.py as at import: nothing loaded, no call running.
RagIdle ==
    /\ corpus = <<>>
    /\ rag_lock = "free"
    /\ rag_initialized = FALSE
    /\ global_model = "None"
    /\ global_index = <<>>
    /\ global_chunks = <<>>
    /\ rag_pc = [t \in RagThreads |-> "idle"]
    /\ rag_query = [t \in RagThreads |-> NoQuery]
    /\ rag_embedding = [t \in RagThreads |-> <<>>]
    /\ rag_result = [t \in RagThreads |-> NoResult]
    /\ rag_calls = [t \in RagThreads |-> 0]
    /\ model_loads = 0
    /\ index_builds = 0
    /\ index_sets = 0
    /\ init_failures = 0

\* api.py: no request is being served.
ApiIdle ==
    /\ api_pc = [t \in RagThreads |-> "idle"]
    /\ api_req = [t \in RagThreads |-> "None"]
    /\ api_history = [t \in RagThreads |-> "None"]
    /\ api_reply = [t \in RagThreads |-> "None"]
    /\ api_response = [t \in RagThreads |-> "None"]
    /\ api_calls = [t \in RagThreads |-> 0]

\* app.py after the first script run of a new session with an empty database:
\* the sidebar's _get_profile() has put a fresh UserProfile in the session.
AppIdle ==
    /\ sess_profile = <<[skills |-> <<>>, weaknesses |-> <<>>, themes |-> <<>>,
                         traits |-> <<>>, turn_count |-> 0]>>
    /\ sess_messages = <<>>
    /\ db_profile = <<>>
    /\ db_chat = <<>>
    /\ app_pc = "idle"
    /\ app_input = "None"
    /\ app_importance = 0
    /\ app_messages = <<>>
    /\ app_reply = "None"
    /\ app_result = [kind |-> "none", text |-> "", shown |-> 0]
    /\ app_turns = 0
    /\ app_caller = "none"
    /\ app_streaming = FALSE
    /\ app_yielded = <<>>
    /\ app_parts = <<>>
    /\ app_deltas = 0
    /\ app_before = [store |-> <<>>, db_profile |-> <<>>, db_chat |-> <<>>,
                     profile |-> [skills |-> <<>>, weaknesses |-> <<>>,
                                  themes |-> <<>>, traits |-> <<>>,
                                  turn_count |-> 0]]
    /\ app_raw = [type |-> "none", text |-> ""]
    /\ app_completions = 0
    /\ db_last = [op |-> "none", raised |-> FALSE]

\* A caller has made a UserProfile() and called nothing on it.
ProfIdle ==
    /\ prof = [skills |-> <<>>, weaknesses |-> <<>>, themes |-> <<>>,
               traits |-> <<>>, turn_count |-> 0]
    /\ prof_last = "__init__"
    /\ prof_score = 0
    /\ prof_snippet = <<>>
    /\ prof_dict = <<>>
    /\ prof_copy = <<>>
    /\ prof_calls = 0

\* trim_chat_history is not running.
TrimIdle ==
    /\ chat_history = <<>>
    /\ max_tokens = 0
    /\ working = <<>>
    /\ trim_pc = "idle"
    /\ trim_result = <<>>
    /\ trim_iters = 0

\* The memory store as at import: an empty deque.
MemEmpty ==
    /\ store = <<>>
    /\ mem_log = <<>>
    /\ mem_calls = 0

TrimInit ==
    /\ MemEmpty
    /\ RagIdle
    /\ ApiIdle
    /\ AppIdle
    /\ ProfIdle
    /\ chat_history \in TrimInputs
    /\ max_tokens \in Budgets
    /\ working = <<>>
    /\ trim_pc = "start"
    /\ trim_result = <<>>
    /\ trim_iters = 0

\* Entry: the empty-list return, the copy, and the fast path.
TrimEnter ==
    /\ trim_pc = "start"
    /\ IF chat_history = <<>>
       THEN /\ trim_pc' = "done"
            /\ trim_result' = <<>>
            /\ working' = working
       ELSE IF CountTokensList(chat_history) <= max_tokens
            THEN /\ trim_pc' = "done"
                 /\ trim_result' = ToDicts(chat_history)
                 /\ working' = chat_history
            ELSE /\ trim_pc' = "loop"
                 /\ working' = chat_history
                 /\ trim_result' = trim_result
    /\ UNCHANGED <<chat_history, max_tokens, trim_iters, allButTrim>>

\* One iteration of the importance-aware while loop.
TrimLoopIter ==
    /\ trim_pc = "loop"
    /\ ~LoopExits(working, max_tokens)
    /\ LET r == ImportanceIter(working)
       IN  /\ working' = r.w
           /\ trim_pc' = IF r.raised THEN "raised" ELSE "loop"
    /\ trim_iters' = trim_iters + 1
    /\ chat_history' = CallerList(chat_history, working')
    /\ UNCHANGED <<max_tokens, trim_result, allButTrim>>

\* Loop exit: the recency fallback loop and the return.
TrimReturn ==
    /\ trim_pc = "loop"
    /\ LoopExits(working, max_tokens)
    /\ working' = RecencyFallback(working, max_tokens)
    /\ trim_result' = ToDicts(working')
    /\ trim_pc' = "done"
    /\ chat_history' = CallerList(chat_history, working')
    /\ UNCHANGED <<max_tokens, trim_iters, allButTrim>>

TrimNext == TrimEnter \/ TrimLoopIter \/ TrimReturn

SpecTrim == TrimInit /\ [][TrimNext]_vars

\* The calls that trim the most: with a budget of 0 every message list is
\* over the budget, and the removal loop runs as long as it can.
TrimFairInit == TrimInit /\ max_tokens = 0

\* trim_chat_history is one sequential call: once entered it keeps running.
SpecTrimFair == TrimFairInit /\ [][TrimNext]_vars /\ WF_vars(TrimNext)

\* ---- claims about trim_chat_history (checked under SpecTrim)

Min(a, b) == IF a <= b THEN a ELSE b

RECURSIVE IsSubsequence(_, _)
IsSubsequence(a, b) ==
    IF a = <<>> THEN TRUE
    ELSE IF b = <<>> THEN FALSE
    ELSE IF Head(a) = Head(b) THEN IsSubsequence(Tail(a), Tail(b))
    ELSE IsSubsequence(a, Tail(b))

\* A plain {role, content} pair with the role and content of msg.
IsPlainPairOf(d, msg) ==
    /\ DOMAIN d = {"role", "content"}
    /\ d.role = msg.role
    /\ d.content = msg.content

C3_Original ==
    trim_pc = "done" =>
        Len(trim_result) >= 2 /\ Len(trim_result) <= Len(chat_history)

\* C3 amended: the returned list has at least min(2, len(input)) messages
\* and at most len(input) messages.
C3_FloorAndCeiling ==
    trim_pc = "done" =>
        /\ Len(trim_result) >= Min(MIN_MESSAGES, Len(chat_history))
        /\ Len(trim_result) <= Len(chat_history)

\* An over-budget list was trimmed down to the floor of 2 messages.
C3_Witness ==
    /\ trim_pc = "done"
    /\ Len(chat_history) > 2
    /\ Len(trim_result) = 2

\* C4: on return for an input of at least 2 messages, the returned messages
\* are within the budget or exactly 2 messages remain.
C4_BudgetOrFloor ==
    (trim_pc = "done" /\ Len(chat_history) >= 2) =>
        \/ CountTokensList(trim_result) <= max_tokens
        \/ Len(trim_result) = 2

\* Messages were removed until the remainder fitted the budget, with more
\* than 2 left.
C4_Witness ==
    /\ trim_pc = "done"
    /\ CountTokensList(chat_history) > max_tokens
    /\ CountTokensList(trim_result) <= max_tokens
    /\ Len(trim_result) > 2

\* C5: an input within the budget is returned whole, in order, each message
\* as a plain {role, content} pair.
C5_FastPath ==
    (trim_pc = "done" /\ CountTokensList(chat_history) <= max_tokens) =>
        /\ Len(trim_result) = Len(chat_history)
        /\ \A i \in 1..Len(chat_history) :
              IsPlainPairOf(trim_result[i], chat_history[i])

\* A list of at least 3 messages with both roles returned by the fast path.
C5_Witness ==
    /\ trim_pc = "done"
    /\ CountTokensList(chat_history) <= max_tokens
    /\ Len(chat_history) >= 3
    /\ \E i, j \in 1..Len(chat_history) :
          chat_history[i].role # chat_history[j].role

\* C6: the returned messages are a subsequence of the input messages.
C6_Subsequence ==
    trim_pc = "done" =>
        IsSubsequence(trim_result,
                      [i \in 1..Len(chat_history) |->
                          [role |-> chat_history[i].role,
                           content |-> chat_history[i].content]])

\* A trim that removed a message and kept two different messages.
C6_Witness ==
    /\ trim_pc = "done"
    /\ Len(trim_result) >= 2
    /\ Len(trim_result) < Len(chat_history)
    /\ trim_result[1] # trim_result[2]

\* ------------------------------------------------------------ memory.py

MAX_MEMORY == 20

\* Mutant of DequeAppend: a plain list append, no maxlen.
DequeAppendUnbounded(d, x) == Append(d, x)

\* deque(maxlen=MAX_MEMORY * 2).append(x): a full deque drops its oldest entry.
DequeAppend(d, x) ==
    IF Len(d) >= MAX_MEMORY * 2 THEN Append(Tail(d), x) ELSE Append(d, x)

\* The two appends of add_to_memory, and of one row of rehydrate_memory.
AppendPair(d, user_msg, bot_msg, importance) ==
    DequeAppend(DequeAppend(d, ScoredMessage("user", user_msg, importance)),
                ScoredMessage("assistant", bot_msg, importance))

\* The same two entries, appended to a history that drops nothing.
LogPair(log, user_msg, bot_msg, importance) ==
    log \o <<ScoredMessage("user", user_msg, importance),
             ScoredMessage("assistant", bot_msg, importance)>>

\* The for loop of rehydrate_memory over history_rows.
RECURSIVE AppendRows(_, _)
AppendRows(d, rows) ==
    IF rows = <<>> THEN d
    ELSE AppendRows(AppendPair(d, Head(rows).user, Head(rows).bot,
                               Head(rows).importance), Tail(rows))

RECURSIVE LogRows(_, _)
LogRows(log, rows) ==
    IF rows = <<>> THEN log
    ELSE LogRows(LogPair(log, Head(rows).user, Head(rows).bot,
                         Head(rows).importance), Tail(rows))

MemUserTexts == {"ok", "fix my bug now"}
MemBotTexts == {"nice try"}

\* Rows as database.get_chat_history returns them: n rows, oldest first.
HistoryRows(n) ==
    [i \in 1..n |->
        [user |-> IF i % 2 = 1 THEN "ok" ELSE "fix my bug now",
         bot |-> "nice try",
         importance |-> i % 11]]

RowCounts == {0, 1, MAX_MEMORY - 1, MAX_MEMORY, MAX_MEMORY + 1}

\* add_to_memory(user_msg, bot_msg, importance), called alone.
AddToMemory(user_msg, bot_msg, importance) ==
    /\ mem_calls < MaxMemCalls
    /\ store' = AppendPair(store, user_msg, bot_msg, importance)
    /\ mem_log' = LogPair(mem_log, user_msg, bot_msg, importance)
    /\ mem_calls' = mem_calls + 1
    /\ UNCHANGED allButMem

\* clear_memory()
ClearMemory ==
    /\ mem_calls < MaxMemCalls
    /\ store' = <<>>
    /\ mem_log' = <<>>
    /\ mem_calls' = mem_calls + 1
    /\ UNCHANGED allButMem

\* rehydrate_memory(history_rows): a no-op on a non-empty store.
RehydrateMemory(history_rows) ==
    /\ mem_calls < MaxMemCalls
    /\ IF store # <<>>
       THEN UNCHANGED <<store, mem_log>>
       ELSE /\ store' = AppendRows(store, history_rows)
            /\ mem_log' = LogRows(mem_log, history_rows)
    /\ mem_calls' = mem_calls + 1
    /\ UNCHANGED allButMem

MemInit == TrimIdle /\ MemEmpty /\ RagIdle /\ ApiIdle /\ AppIdle /\ ProfIdle

MemNext ==
    \/ \E u \in MemUserTexts, b \in MemBotTexts, i \in Importances :
          AddToMemory(u, b, i)
    \/ ClearMemory
    \/ \E n \in RowCounts : RehydrateMemory(HistoryRows(n))

SpecMem == MemInit /\ [][MemNext]_vars

\* ---- claims about the memory store (checked under SpecMem)

\* The last n entries of s.
LastN(s, n) == SubSeq(s, Len(s) - n + 1, Len(s))

\* C7: the store holds at most 40 entries, and they are the most recent
\* entries appended since the last clear, in append order.
C7_CapAndRecency ==
    /\ Len(store) <= 2 * MAX_MEMORY
    /\ store = LastN(mem_log, Min(Len(mem_log), 2 * MAX_MEMORY))

\* More than 40 entries were appended since the last clear, by a rehydration
\* and by add_to_memory.
C7_Witness ==
    /\ Len(mem_log) > 2 * MAX_MEMORY + 2
    /\ Len(store) = 2 * MAX_MEMORY
    /\ store[Len(store)].importance \in Importances
    /\ store[1].importance \notin Importances

\* --------------------------------------------------------------- rag.py
\* The module's second half (lines 183-252) rebinds load_and_chunk and
\* retrieve_context; these later definitions are the ones callers get.

\* The non-blank slices of the text read from the data folder; none when
\* the folder holds no text.
DataSets == {<<>>, <<"c1", "c2">>, <<"c1", "c2", "c3", "c4">>}

\* load_and_chunk: return chunks or ["No data"]
LoadAndChunk(slices) == IF slices = <<>> THEN <<"No data">> ELSE slices

Corpora == {LoadAndChunk(slices) : slices \in DataSets}
RagQueries == {"q1", "q2"}
TopKs == {1, 3}
DEFAULT_TOP_K == 3

\* SentenceTransformer.encode of one text, as a point on a line.
Embed(text) ==
    CASE text = "No data" -> 0
      [] text = "c1" -> 1
      [] text = "c2" -> 4
      [] text = "c3" -> 6
      [] text = "c4" -> 9
      [] text = "q1" -> 2
      [] text = "q2" -> 7
      [] OTHER -> 0

\* build_index: model.encode(chunks) added to an IndexFlatL2.
BuildIndex(chunks) == [i \in 1..Len(chunks) |-> Embed(chunks[i])]

\* Squared Euclidean distance, as IndexFlatL2 reports it.
L2(a, b) == (a - b) * (a - b)

\* Row indices (from 0) of the index, nearest to the query first.
RECURSIVE NearestFirst(_, _, _)
NearestFirst(index, qe, left) ==
    IF left = {} THEN <<>>
    ELSE LET m == CHOOSE i \in left : \A j \in left :
                      \/ L2(index[i + 1], qe) < L2(index[j + 1], qe)
                      \/ L2(index[i + 1], qe) = L2(index[j + 1], qe) /\ i <= j
         IN  <<m>> \o NearestFirst(index, qe, left \ {m})

\* index.search(query, k): the k nearest row indices; -1 where the index
\* has fewer than k rows.
IndexSearch(index, qe, k) ==
    LET ranked == NearestFirst(index, qe, 0..(Len(index) - 1))
    IN  [p \in 1..k |-> IF p <= Len(ranked) THEN ranked[p] ELSE -1]

\* chunks[i] with Python's indexing: a negative i counts from the end.
PyIndex(chunks, i) ==
    IF i >= 0 THEN chunks[i + 1] ELSE chunks[Len(chunks) + i + 1]

\* [_global_chunks[i] for i in indices[0] if i < len(_global_chunks)]
RECURSIVE PickChunks(_, _)
PickChunks(chunks, indices) ==
    IF indices = <<>> THEN <<>>
    ELSE IF Head(indices) < Len(chunks)
         THEN <<PyIndex(chunks, Head(indices))>> \o PickChunks(chunks, Tail(indices))
         ELSE PickChunks(chunks, Tail(indices))

\* _global_index and _global_chunks hold <<>> while they are None: a built
\* index is never empty, load_and_chunk returns at least ["No data"].
IsNone(value) == value = <<>>

\* ---- retrieve_context, one action per position of a thread in it

\* retrieve_context(query, top_k) is called.
RagCall(t, query, top_k) ==
    /\ rag_pc[t] \in {"idle", "done", "raised"}
    /\ rag_calls[t] < MaxRagCalls
    /\ rag_calls' = [rag_calls EXCEPT ![t] = @ + 1]
    /\ rag_query' = [rag_query EXCEPT ![t] = [query |-> query, top_k |-> top_k]]
    /\ rag_embedding' = [rag_embedding EXCEPT ![t] = <<>>]
    /\ rag_result' = [rag_result EXCEPT ![t] = NoResult]
    /\ rag_pc' = [rag_pc EXCEPT ![t] = "check"]
    /\ UNCHANGED <<corpus, rag_lock, rag_initialized, global_model,
                   global_index, global_chunks, model_loads, index_builds,
                   index_sets, init_failures>>
    /\ UNCHANGED allButRag

\* _initialize_rag_components: the unlocked "if not _rag_initialized".
RagOuterCheck(t) ==
    /\ rag_pc[t] = "check"
    /\ rag_pc' = [rag_pc EXCEPT ![t] =
                     IF rag_initialized THEN "enc_acquire" ELSE "init_acquire"]
    /\ UNCHANGED <<corpus, rag_lock, rag_initialized, global_model,
                   global_index, global_chunks, rag_query, rag_embedding,
                   rag_result, rag_calls, model_loads, index_builds,
                   index_sets, init_failures>>
    /\ UNCHANGED allButRag

\* "with _rag_lock:" of the initialisation.
RagInitAcquire(t) ==
    /\ rag_pc[t] = "init_acquire"
    /\ rag_lock = "free"
    /\ rag_lock' = t
    /\ rag_pc' = [rag_pc EXCEPT ![t] = "init_check"]
    /\ UNCHANGED <<corpus, rag_initialized, global_model, global_index,
                   global_chunks, rag_query, rag_embedding, rag_result,
                   rag_calls, model_loads, index_builds, index_sets,
                   init_failures>>
    /\ UNCHANGED allButRag

\* Mutant of RagInnerCheck: the flag is not checked again under the lock.
RagInnerCheckMissing(t) ==
    /\ rag_pc[t] = "init_check"
    /\ rag_pc' = [rag_pc EXCEPT ![t] = "init_load"]
    /\ UNCHANGED <<corpus, rag_lock, rag_initialized, global_model,
                   global_index, global_chunks, rag_query, rag_embedding,
                   rag_result, rag_calls, model_loads, index_builds,
                   index_sets, init_failures>>
    /\ UNCHANGED allButRag

\* The second "if not _rag_initialized", under the lock.
RagInnerCheck(t) ==
    /\ rag_pc[t] = "init_check"
    /\ IF rag_initialized
       THEN /\ rag_lock' = "free"
            /\ rag_pc' = [rag_pc EXCEPT ![t] = "enc_acquire"]
       ELSE /\ rag_lock' = rag_lock
            /\ rag_pc' = [rag_pc EXCEPT ![t] = "init_load"]
    /\ UNCHANGED <<corpus, rag_initialized, global_model, global_index,
                   global_chunks, rag_query, rag_embedding, rag_result,
                   rag_calls, model_loads, index_builds, index_sets,
                   init_failures>>
    /\ UNCHANGED allButRag

\* _global_model = SentenceTransformer(...): it loads, or it raises and the
\* with statement releases the lock on the way out.
RagLoadModel(t, ok) ==
    /\ rag_pc[t] = "init_load"
    /\ model_loads' = model_loads + 1
    /\ IF ok
       THEN /\ global_model' = "model"
            /\ rag_lock' = rag_lock
            /\ rag_pc' = [rag_pc EXCEPT ![t] = "init_build"]
            /\ rag_result' = rag_result
            /\ init_failures' = init_failures
       ELSE /\ global_model' = global_model
            /\ rag_lock' = "free"
            /\ rag_pc' = [rag_pc EXCEPT ![t] = "raised"]
            /\ rag_result' = [rag_result EXCEPT ![t] = Raised("load raised")]
            /\ init_failures' = init_failures + 1
    /\ UNCHANGED <<corpus, rag_initialized, global_index, global_chunks,
                   rag_query, rag_embedding, rag_calls,
                   index_builds, index_sets>>
    /\ UNCHANGED allButRag

\* chunks_list = load_and_chunk(); _global_index, _global_chunks =
\* build_index(chunks_list, _global_model): it returns, or encode raises.
RagBuildIndex(t, ok) ==
    /\ rag_pc[t] = "init_build"
    /\ index_builds' = index_builds + 1
    /\ IF ok
       THEN /\ global_index' = BuildIndex(corpus)
            /\ global_chunks' = corpus
            /\ index_sets' = index_sets + 1
            /\ rag_lock' = rag_lock
            /\ rag_pc' = [rag_pc EXCEPT ![t] = "init_flag"]
            /\ rag_result' = rag_result
            /\ init_failures' = init_failures
       ELSE /\ UNCHANGED <<global_index, global_chunks, index_sets>>
            /\ rag_lock' = "free"
            /\ rag_pc' = [rag_pc EXCEPT ![t] = "raised"]
            /\ rag_result' = [rag_result EXCEPT ![t] = Raised("build raised")]
            /\ init_failures' = init_failures + 1
    /\ UNCHANGED <<corpus, rag_initialized, global_model, rag_query,
                   rag_embedding, rag_calls, model_loads>>
    /\ UNCHANGED allButRag

\* _rag_initialized = True, and the end of the with block.
RagSetInitialized(t) ==
    /\ rag_pc[t] = "init_flag"
    /\ rag_initialized' = TRUE
    /\ rag_lock' = "free"
    /\ rag_pc' = [rag_pc EXCEPT ![t] = "enc_acquire"]
    /\ UNCHANGED <<corpus, global_model, global_index, global_chunks,
                   rag_query, rag_embedding, rag_result, rag_calls,
                   model_loads, index_builds, index_sets, init_failures>>
    /\ UNCHANGED allButRag

\* Mutant of RagEncAcquire: the query encode is entered without the lock.
RagEncAcquireUnlocked(t) ==
    /\ rag_pc[t] = "enc_acquire"
    /\ rag_pc' = [rag_pc EXCEPT ![t] = "encode"]
    /\ UNCHANGED <<corpus, rag_lock, rag_initialized, global_model, global_index,
                   global_chunks, rag_query, rag_embedding, rag_result,
                   rag_calls, model_loads, index_builds, index_sets,
                   init_failures>>
    /\ UNCHANGED allButRag

\* "with _rag_lock:" of the query encode.
RagEncAcquire(t) ==
    /\ rag_pc[t] = "enc_acquire"
    /\ rag_lock = "free"
    /\ rag_lock' = t
    /\ rag_pc' = [rag_pc EXCEPT ![t] = "encode"]
    /\ UNCHANGED <<corpus, rag_initialized, global_model, global_index,
                   global_chunks, rag_query, rag_embedding, rag_result,
                   rag_calls, model_loads, index_builds, index_sets,
                   init_failures>>
    /\ UNCHANGED allButRag

\* Mutant of RagEncode: the query embedding is kept in a variable that all
\* threads share.
RagEncodeShared(t, ok) ==
    /\ rag_pc[t] = "encode"
    /\ rag_lock' = "free"
    /\ IF ok
       THEN /\ rag_embedding' = [u \in RagThreads |-> <<Embed(rag_query[t].query)>>]
            /\ rag_pc' = [rag_pc EXCEPT ![t] = "search"]
            /\ rag_result' = rag_result
       ELSE /\ rag_embedding' = rag_embedding
            /\ rag_pc' = [rag_pc EXCEPT ![t] = "raised"]
            /\ rag_result' = [rag_result EXCEPT ![t] = Raised("encode raised")]
    /\ UNCHANGED <<corpus, rag_initialized, global_model, global_index,
                   global_chunks, rag_query, rag_calls,
                   model_loads, index_builds, index_sets, init_failures>>
    /\ UNCHANGED allButRag

\* Mutant of RagEncode: the lock is not released when encode raises.
RagEncodeKeepsLock(t, ok) ==
    /\ rag_pc[t] = "encode"
    /\ IF ok
       THEN /\ rag_embedding' = [rag_embedding EXCEPT ![t] = <<Embed(rag_query[t].query)>>]
            /\ rag_pc' = [rag_pc EXCEPT ![t] = "search"]
            /\ rag_result' = rag_result
            /\ rag_lock' = "free"
       ELSE /\ rag_embedding' = rag_embedding
            /\ rag_pc' = [rag_pc EXCEPT ![t] = "raised"]
            /\ rag_result' = [rag_result EXCEPT ![t] = Raised("encode raised")]
            /\ rag_lock' = rag_lock
    /\ UNCHANGED <<corpus, rag_initialized, global_model, global_index,
                   global_chunks, rag_query, rag_calls,
                   model_loads, index_builds, index_sets, init_failures>>
    /\ UNCHANGED allButRag

\* query_embedding = _global_model.encode([query]), and the end of the with
\* block: it returns, or it raises (an AttributeError if _global_model is
\* still None).
RagEncode(t, ok) ==
    /\ rag_pc[t] = "encode"
    /\ rag_lock' = "free"
    /\ IF global_model = "None"
       THEN /\ rag_embedding' = rag_embedding
            /\ rag_pc' = [rag_pc EXCEPT ![t] = "raised"]
            /\ rag_result' = [rag_result EXCEPT ![t] = Raised("AttributeError")]
       ELSE IF ok
       THEN /\ rag_embedding' = [rag_embedding EXCEPT ![t] = <<Embed(rag_query[t].query)>>]
            /\ rag_pc' = [rag_pc EXCEPT ![t] = "search"]
            /\ rag_result' = rag_result
       ELSE /\ rag_embedding' = rag_embedding
            /\ rag_pc' = [rag_pc EXCEPT ![t] = "raised"]
            /\ rag_result' = [rag_result EXCEPT ![t] = Raised("encode raised")]
    /\ UNCHANGED <<corpus, rag_initialized, global_model, global_index,
                   global_chunks, rag_query, rag_calls,
                   model_loads, index_builds, index_sets, init_failures>>
    /\ UNCHANGED allButRag

\* _global_index.search(...), the list comprehension and the join (an
\* AttributeError if _global_index is still None).
RagSearch(t) ==
    /\ rag_pc[t] = "search"
    /\ IF IsNone(global_index)
       THEN /\ rag_result' = [rag_result EXCEPT ![t] = Raised("AttributeError")]
            /\ rag_pc' = [rag_pc EXCEPT ![t] = "raised"]
       ELSE /\ rag_result' = [rag_result EXCEPT ![t] =
                    Returned(PickChunks(global_chunks,
                                        IndexSearch(global_index, rag_embedding[t][1],
                                                    rag_query[t].top_k)))]
            /\ rag_pc' = [rag_pc EXCEPT ![t] = "done"]
    /\ UNCHANGED <<corpus, rag_lock, rag_initialized, global_model,
                   global_index, global_chunks, rag_query, rag_embedding,
                   rag_calls, model_loads, index_builds, index_sets,
                   init_failures>>
    /\ UNCHANGED allButRag

RagInit ==
    /\ TrimIdle
    /\ MemEmpty
    /\ ApiIdle
    /\ AppIdle
    /\ ProfIdle
    /\ corpus \in Corpora
    /\ rag_lock = "free"
    /\ rag_initialized = FALSE
    /\ global_model = "None"
    /\ global_index = <<>>
    /\ global_chunks = <<>>
    /\ rag_pc = [t \in RagThreads |-> "idle"]
    /\ rag_query = [t \in RagThreads |-> NoQuery]
    /\ rag_embedding = [t \in RagThreads |-> <<>>]
    /\ rag_result = [t \in RagThreads |-> NoResult]
    /\ rag_calls = [t \in RagThreads |-> 0]
    /\ model_loads = 0
    /\ index_builds = 0
    /\ index_sets = 0
    /\ init_failures = 0

RagNext ==
    \E t \in RagThreads :
        \/ \E q \in RagQueries, k \in TopKs : RagCall(t, q, k)
        \/ RagOuterCheck(t)
        \/ RagInitAcquire(t)
        \/ RagInnerCheck(t)
        \/ \E ok \in BOOLEAN : RagLoadModel(t, ok)
        \/ \E ok \in BOOLEAN : RagBuildIndex(t, ok)
        \/ RagSetInitialized(t)
        \/ RagEncAcquire(t)
        \/ \E ok \in BOOLEAN : RagEncode(t, ok)
        \/ RagSearch(t)

SpecRag == RagInit /\ [][RagNext]_vars

\* The steps of thread t inside a call it has started.
RagStep(t) ==
    \/ RagOuterCheck(t)
    \/ RagInitAcquire(t)
    \/ RagInnerCheck(t)
    \/ \E ok \in BOOLEAN : RagLoadModel(t, ok)
    \/ \E ok \in BOOLEAN : RagBuildIndex(t, ok)
    \/ RagSetInitialized(t)
    \/ RagEncAcquire(t)
    \/ \E ok \in BOOLEAN : RagEncode(t, ok)
    \/ RagSearch(t)

\* Concurrent callers on one corpus, each making at most MaxFairCalls calls.
RagFairInit == RagInit /\ corpus = <<"c1", "c2">>

RagFairCall(t) ==
    /\ rag_calls[t] < MaxFairCalls
    /\ \E q \in RagQueries : RagCall(t, q, DEFAULT_TOP_K)

RagFairNext == \E t \in RagThreads : RagFairCall(t) \/ RagStep(t)

\* Every thread that can take a step of its call eventually takes one: the
\* interpreter keeps scheduling runnable threads, and each load, encode and
\* search call comes back.
SpecRagFair ==
    /\ RagFairInit
    /\ [][RagFairNext]_vars
    /\ \A t \in RagThreads : WF_vars(RagStep(t))

\* ---- retrieve_context run to its end by one caller, without interleaving

RetrieveOutcomes == {"ok", "load_raises", "build_raises", "encode_raises"}

\* The effect on rag.py's globals of one whole retrieve_context call.
RetrieveWhole(outcome) ==
    /\ outcome \in (IF rag_initialized THEN {"ok", "encode_raises"}
                                       ELSE RetrieveOutcomes)
    /\ IF rag_initialized
       THEN UNCHANGED <<rag_initialized, global_model, global_index, global_chunks,
                        model_loads, index_builds, index_sets, init_failures>>
       ELSE /\ model_loads' = model_loads + 1
            /\ global_model' = IF outcome = "load_raises" THEN global_model ELSE "model"
            /\ index_builds' = IF outcome = "load_raises" THEN index_builds
                                                          ELSE index_builds + 1
            /\ init_failures' = IF outcome \in {"load_raises", "build_raises"}
                                THEN init_failures + 1 ELSE init_failures
            /\ IF outcome \in {"ok", "encode_raises"}
               THEN /\ global_index' = BuildIndex(corpus)
                    /\ global_chunks' = corpus
                    /\ index_sets' = index_sets + 1
                    /\ rag_initialized' = TRUE
               ELSE UNCHANGED <<global_index, global_chunks, index_sets,
                                rag_initialized>>
    /\ UNCHANGED <<corpus, rag_lock, rag_pc, rag_query, rag_embedding, rag_result,
                   rag_calls>>

\* What that call returns when it does not raise.
RetrievedContext(query, top_k) ==
    PickChunks(global_chunks', IndexSearch(global_index', Embed(query), top_k))

\* --------------------------------------------------------------- api.py

ApiClients == {"A", "B"}
Replies == {"nice try"}
CompletionOutcomes == Replies \cup {"raises"}

\* The message a client sends; each client has its own text.
ClientText(c) == IF c = "A" THEN "I am a Python developer" ELSE "fix my bug now"

\* The client a user text came from.
ClientOf(text) == IF text = "I am a Python developer" THEN "A" ELSE "B"

ApiMessages(c) == {ClientText(c), "", "   "}

\* not text or text.isspace()
IsBlank(text) == text \in {"", "   "}

\* format_memory(): [m.to_dict() for m in _store]
FormatMemory == ToDicts(store)

\* POST /chat arrives: the blank-message return, or on into the try block.
ApiChatRequest(t, c, message) ==
    /\ api_pc[t] \in {"idle", "done"}
    /\ api_calls[t] < MaxApiCalls
    /\ api_calls' = [api_calls EXCEPT ![t] = @ + 1]
    /\ api_req' = [api_req EXCEPT ![t] = [client |-> c, message |-> message]]
    /\ api_history' = [api_history EXCEPT ![t] = "None"]
    /\ api_reply' = [api_reply EXCEPT ![t] = "None"]
    /\ IF IsBlank(message)
       THEN /\ api_response' = [api_response EXCEPT ![t] =
                    [status |-> 200,
                     reply |-> "You sent me nothing? Even your messages are empty!"]]
            /\ api_pc' = [api_pc EXCEPT ![t] = "done"]
       ELSE /\ api_response' = [api_response EXCEPT ![t] = "None"]
            /\ api_pc' = [api_pc EXCEPT ![t] = "retrieve"]
    /\ UNCHANGED <<profVars, appVars, trimVars, memVars, ragVars>>

\* context = retrieve_context(message); history = format_memory()
ApiRetrieve(t, outcome) ==
    /\ api_pc[t] = "retrieve"
    /\ RetrieveWhole(outcome)
    /\ IF outcome = "ok"
       THEN /\ api_history' = [api_history EXCEPT ![t] = FormatMemory]
            /\ api_pc' = [api_pc EXCEPT ![t] = "completion"]
            /\ api_response' = api_response
       ELSE /\ api_history' = api_history
            /\ api_pc' = [api_pc EXCEPT ![t] = "done"]
            /\ api_response' = [api_response EXCEPT ![t] =
                    [status |-> 500, reply |-> outcome]]
    /\ UNCHANGED <<profVars, appVars, trimVars, memVars, api_req, api_reply, api_calls>>

\* client.chat.completions.create(...) returns a reply, or raises.
ApiCompletion(t, outcome) ==
    /\ api_pc[t] = "completion"
    /\ IF outcome = "raises"
       THEN /\ api_reply' = api_reply
            /\ api_pc' = [api_pc EXCEPT ![t] = "done"]
            /\ api_response' = [api_response EXCEPT ![t] =
                    [status |-> 500, reply |-> "completion raises"]]
       ELSE /\ api_reply' = [api_reply EXCEPT ![t] = outcome]
            /\ api_pc' = [api_pc EXCEPT ![t] = "append_user"]
            /\ api_response' = api_response
    /\ UNCHANGED <<profVars, appVars, trimVars, memVars, ragVars, api_req, api_history, api_calls>>

\* add_to_memory(message, reply), first statement: the user entry.
ApiAppendUser(t) ==
    /\ api_pc[t] = "append_user"
    /\ store' = DequeAppend(store, ScoredMessage("user", api_req[t].message, 1))
    /\ mem_log' = Append(mem_log, ScoredMessage("user", api_req[t].message, 1))
    /\ api_pc' = [api_pc EXCEPT ![t] = "append_assistant"]
    /\ UNCHANGED <<profVars, appVars, trimVars, mem_calls, ragVars, api_req, api_history, api_reply,
                   api_response, api_calls>>

\* add_to_memory, second statement: the assistant entry; then the return.
ApiAppendAssistant(t) ==
    /\ api_pc[t] = "append_assistant"
    /\ store' = DequeAppend(store, ScoredMessage("assistant", api_reply[t], 1))
    /\ mem_log' = Append(mem_log, ScoredMessage("assistant", api_reply[t], 1))
    /\ api_response' = [api_response EXCEPT ![t] =
            [status |-> 200, reply |-> api_reply[t]]]
    /\ api_pc' = [api_pc EXCEPT ![t] = "done"]
    /\ UNCHANGED <<profVars, appVars, trimVars, mem_calls, ragVars, api_req, api_history, api_reply,
                   api_calls>>

\* DELETE /clear: clear_memory().
ApiClear(t, c) ==
    /\ api_pc[t] \in {"idle", "done"}
    /\ api_calls[t] < MaxApiCalls
    /\ api_calls' = [api_calls EXCEPT ![t] = @ + 1]
    /\ api_req' = [api_req EXCEPT ![t] = [client |-> c, message |-> "clear"]]
    /\ store' = <<>>
    /\ mem_log' = <<>>
    /\ api_history' = [api_history EXCEPT ![t] = "None"]
    /\ api_reply' = [api_reply EXCEPT ![t] = "None"]
    /\ api_response' = [api_response EXCEPT ![t] =
            [status |-> 200, reply |-> "Chat history cleared"]]
    /\ api_pc' = [api_pc EXCEPT ![t] = "done"]
    /\ UNCHANGED <<profVars, appVars, trimVars, mem_calls, ragVars>>

ApiInit ==
    /\ TrimIdle
    /\ MemEmpty
    /\ ApiIdle
    /\ AppIdle
    /\ ProfIdle
    /\ corpus = <<"c1", "c2">>
    /\ rag_lock = "free"
    /\ rag_initialized = FALSE
    /\ global_model = "None"
    /\ global_index = <<>>
    /\ global_chunks = <<>>
    /\ rag_pc = [t \in RagThreads |-> "idle"]
    /\ rag_query = [t \in RagThreads |-> NoQuery]
    /\ rag_embedding = [t \in RagThreads |-> <<>>]
    /\ rag_result = [t \in RagThreads |-> NoResult]
    /\ rag_calls = [t \in RagThreads |-> 0]
    /\ model_loads = 0
    /\ index_builds = 0
    /\ index_sets = 0
    /\ init_failures = 0

ApiNext ==
    \E t \in RagThreads :
        \/ \E c \in ApiClients : \E m \in ApiMessages(c) : ApiChatRequest(t, c, m)
        \/ \E o \in RetrieveOutcomes : ApiRetrieve(t, o)
        \/ \E o \in CompletionOutcomes : ApiCompletion(t, o)
        \/ ApiAppendUser(t)
        \/ ApiAppendAssistant(t)
        \/ \E c \in ApiClients : ApiClear(t, c)

SpecApi == ApiInit /\ [][ApiNext]_vars

\* ---- claims about the store under concurrent requests (checked under SpecApi)

\* C8: the history read for a turn holds no message appended during a turn
\* of another session (client).
C8_SessionIsolation ==
    \A t \in RagThreads :
        api_pc[t] \in {"completion", "append_user", "append_assistant"} =>
            \A i \in 1..Len(api_history[t]) :
                api_history[t][i].role = "user" =>
                    ClientOf(api_history[t][i].content) = api_req[t].client

\* C9: the two appends of one turn are never separated by an append of
\* another turn: while a request is between its two appends, the newest
\* entry of the store (unless it was cleared meanwhile) is that request's
\* own user entry.
C9_PairsIntact ==
    \A t \in RagThreads :
        api_pc[t] = "append_assistant" =>
            \/ store = <<>>
            \/ store[Len(store)] = ScoredMessage("user", api_req[t].message, 1)

\* ---- claims about index construction (checked under SpecRag)

\* C10 as stated: the model load and the index build each run at most once
\* per process.
C10_Original == model_loads <= 1 /\ index_builds <= 1

\* C10 amended: load and build run at most once beyond the attempts that
\* raised (so at most once when none raises), exactly one attempt has
\* succeeded once the components are initialised, and the index and chunk
\* list are assigned at most once, never replaced.
C10_InitOnce ==
    /\ model_loads <= init_failures + 1
    /\ index_builds <= model_loads
    /\ index_sets <= 1
    /\ rag_initialized => index_sets = 1 /\ model_loads = init_failures + 1
    /\ index_sets = 1 => global_index = BuildIndex(corpus) /\ global_chunks = corpus

\* A thread that passed the unlocked check before the other thread finished
\* initialising is now at the check under the lock.
C10_Witness ==
    /\ rag_initialized
    /\ \E t \in RagThreads : rag_pc[t] = "init_check"

\* ---- claims about concurrent retrieval (checked under SpecRag)

\* The positions at which a thread is inside a model.encode call: the corpus
\* encode of build_index and the query encode.
InEncode(t) == rag_pc[t] \in {"init_build", "encode"}

\* C11: at most one thread is inside an encode call at any time, and that
\* thread holds _rag_lock.
C11_EncodeExclusive ==
    /\ Cardinality({t \in RagThreads : InEncode(t)}) <= 1
    /\ \A t \in RagThreads : InEncode(t) => rag_lock = t

\* One thread is encoding while another waits for the lock to encode.
C11_Witness ==
    \E t, u \in RagThreads :
        /\ t # u
        /\ InEncode(t)
        /\ rag_pc[u] \in {"init_acquire", "enc_acquire"}

\* What a call's own model load, index build or query encode can raise.
OwnFailures == {"load raised", "build raised", "encode raised"}

\* C12: every call that has started eventually returns or raises (no
\* deadlock), and it raises only when a load, build or encode call that it
\* ran itself raised: no interleaving makes a call fail.
C12_EveryCallReturns ==
    /\ [](\A t \in RagThreads :
            rag_pc[t] = "raised" => rag_result[t].raised \in OwnFailures)
    /\ \A t \in RagThreads :
            (rag_pc[t] = "check") ~> (rag_pc[t] \in {"done", "raised"})

\* A thread that entered the initialisation while another was initialising
\* is still in it after the other has returned its result.
C12_Witness ==
    \E t, u \in RagThreads :
        /\ rag_pc[t] = "done"
        /\ rag_calls[t] = 1
        /\ rag_pc[u] = "init_check"
        /\ rag_calls[u] = 1

\* What a query yields when it runs alone on the index of the corpus.
AloneResult(query, top_k) ==
    PickChunks(corpus, IndexSearch(BuildIndex(corpus), Embed(query), top_k))

\* C13: the result a caller gets is the result of its own query, the same
\* as that query yields when run alone on the same index.
C13_OwnResult ==
    \A t \in RagThreads :
        rag_pc[t] = "done" =>
            rag_result[t] = Returned(AloneResult(rag_query[t].query,
                                                 rag_query[t].top_k))

\* One caller has its result while another, with a different query that
\* yields a different result, has encoded and is about to search.
C13_Witness ==
    \E t, u \in RagThreads :
        /\ rag_pc[t] = "done"
        /\ rag_pc[u] = "search"
        /\ rag_query[t].query # rag_query[u].query
        /\ AloneResult(rag_query[t].query, rag_query[t].top_k)
              # AloneResult(rag_query[u].query, rag_query[u].top_k)

\* ---------------------------------------------------- utils/user_profile.py

LongText == "x repeated 5001 times"

\* What the regexes and keyword banks of user_profile.py find in each text:
\* findall counts, theme matches (in _THEME_KEYWORDS order), emotion words,
\* trait signals (in _TRAIT_SIGNALS order), "?" and user_msg[:60].strip().
Features(text) ==
    CASE text = "I am a Python developer" ->
            [skill_hits |-> 1, weak_hits |-> 0, themes |-> <<<<"coding", 1>>>>,
             emotion |-> FALSE, traits |-> <<>>, question |-> FALSE,
             snippet |-> text]
      [] text = "fix my bug now" ->
            [skill_hits |-> 0, weak_hits |-> 1, themes |-> <<<<"coding", 1>>>>,
             emotion |-> FALSE, traits |-> <<>>, question |-> FALSE,
             snippet |-> text]
      [] text = "why does my code hate me?" ->
            [skill_hits |-> 1, weak_hits |-> 1, themes |-> <<<<"coding", 1>>>>,
             emotion |-> TRUE, traits |-> <<"curious">>, question |-> TRUE,
             snippet |-> text]
      [] text = "I built my app and I know my code" ->
            [skill_hits |-> 4, weak_hits |-> 1, themes |-> <<<<"coding", 1>>>>,
             emotion |-> FALSE, traits |-> <<>>, question |-> FALSE,
             snippet |-> text]
      [] OTHER ->
            [skill_hits |-> 0, weak_hits |-> 0, themes |-> <<>>,
             emotion |-> FALSE, traits |-> <<>>, question |-> FALSE,
             snippet |-> text]

\* UserProfile(): the dataclass defaults.
NewProfile ==
    [skills |-> <<>>, weaknesses |-> <<>>, themes |-> <<>>, traits |-> <<>>,
     turn_count |-> 0]

InSeq(x, s) == \E i \in 1..Len(s) : s[i] = x

\* A Counter is a sequence of <<key, count>> in insertion order.
CounterGet(counter, key) ==
    IF \E i \in 1..Len(counter) : counter[i][1] = key
    THEN LET i == CHOOSE j \in 1..Len(counter) : counter[j][1] = key
         IN  counter[i][2]
    ELSE 0

\* counter[key] += n
CounterAdd(counter, key, n) ==
    IF \E i \in 1..Len(counter) : counter[i][1] = key
    THEN [i \in 1..Len(counter) |->
            IF counter[i][1] = key THEN <<key, counter[i][2] + n>> ELSE counter[i]]
    ELSE Append(counter, <<key, n>>)

\* Mutant of AppendHits: every hit appends the snippet.
RECURSIVE AppendHitsUnchecked(_, _, _)
AppendHitsUnchecked(list, snippet, hits) ==
    IF hits = 0 THEN list
    ELSE AppendHitsUnchecked(Append(list, snippet), snippet, hits - 1)

\* The loop over skill_hits (or weak_hits): the snippet is appended once.
AppendHits(list, snippet, hits) ==
    IF hits > 0 /\ ~InSeq(snippet, list) THEN Append(list, snippet) ELSE list

\* The loop over _THEME_KEYWORDS: counts go up, +1 per theme hit, +1 more
\* when the theme's count has passed 3.
RECURSIVE ThemesLoop(_, _, _)
ThemesLoop(counter, hits, score) ==
    IF hits = <<>>
    THEN [themes |-> counter, score |-> score]
    ELSE LET c == CounterAdd(counter, Head(hits)[1], Head(hits)[2])
         IN  ThemesLoop(c, Tail(hits),
                        score + 1 + (IF CounterGet(c, Head(hits)[1]) > 3 THEN 1 ELSE 0))

\* The loop over _TRAIT_SIGNALS: one count per trait signalled.
RECURSIVE TraitsLoop(_, _)
TraitsLoop(counter, hits) ==
    IF hits = <<>> THEN counter
    ELSE TraitsLoop(CounterAdd(counter, Head(hits), 1), Tail(hits))

Max(a, b) == IF a >= b THEN a ELSE b

\* Mutant of CapScore: the score is returned as accumulated.
CapScoreMissing(score) == score

\* return min(score, 10)
CapScore(score) == Min(score, 10)

\* Mutant of ProfileUpdate: the engagement bonus is added before the
\* short-message penalty is taken off.
ProfileUpdatePenaltyLast(p, user_msg, bot_reply) ==
    LET f       == Features(user_msg)
        th      == ThemesLoop(p.themes, f.themes, 0)
        added   == 3 * f.skill_hits + 3 * f.weak_hits + th.score
                   + (IF f.emotion THEN 2 ELSE 0) + Len(f.traits)
                   + (IF f.question THEN 1 ELSE 0)
        engaged == IF bot_reply # "" /\ Words(bot_reply) > 5
                   THEN Min(10, added + 1) ELSE added
        short   == IF Words(user_msg) < 4 THEN Max(0, engaged - 1) ELSE engaged
    IN  [profile |->
            [skills     |-> AppendHits(p.skills, f.snippet, f.skill_hits),
             weaknesses |-> AppendHits(p.weaknesses, f.snippet, f.weak_hits),
             themes     |-> th.themes,
             traits     |-> TraitsLoop(p.traits, f.traits),
             turn_count |-> p.turn_count + 1],
         importance |-> CapScore(short)]

\* UserProfile.update: the profile after the call and the score returned.
ProfileUpdate(p, user_msg, bot_reply) ==
    LET f       == Features(user_msg)
        th      == ThemesLoop(p.themes, f.themes, 0)
        added   == 3 * f.skill_hits + 3 * f.weak_hits + th.score
                   + (IF f.emotion THEN 2 ELSE 0) + Len(f.traits)
                   + (IF f.question THEN 1 ELSE 0)
        short   == IF Words(user_msg) < 4 THEN Max(0, added - 1) ELSE added
        engaged == IF bot_reply # "" /\ Words(bot_reply) > 5
                   THEN Min(10, short + 1) ELSE short
    IN  [profile |->
            [skills     |-> AppendHits(p.skills, f.snippet, f.skill_hits),
             weaknesses |-> AppendHits(p.weaknesses, f.snippet, f.weak_hits),
             themes     |-> th.themes,
             traits     |-> TraitsLoop(p.traits, f.traits),
             turn_count |-> p.turn_count + 1],
         importance |-> CapScore(engaged)]

\* list(dict.fromkeys(s))
RECURSIVE Unique(_)
Unique(s) ==
    IF s = <<>> THEN <<>>
    ELSE LET u == Unique(SubSeq(s, 1, Len(s) - 1))
         IN  IF InSeq(s[Len(s)], u) THEN u ELSE Append(u, s[Len(s)])

\* s[-n:]
LastUpTo(s, n) == SubSeq(s, Max(1, Len(s) - n + 1), Len(s))

\* Counter.most_common(n): keys by count, highest first, ties in insertion order.
RECURSIVE MostCommon(_, _)
MostCommon(counter, n) ==
    IF n = 0 \/ counter = <<>> THEN <<>>
    ELSE LET i == CHOOSE j \in 1..Len(counter) :
                    \A k \in 1..Len(counter) :
                        \/ counter[j][2] > counter[k][2]
                        \/ counter[j][2] = counter[k][2] /\ j <= k
         IN  <<counter[i][1]>> \o MostCommon(PopAt(counter, i), n - 1)

\* Mutant of ToPromptSnippet: the parts are built whatever turn_count is.
ToPromptSnippetUngated(p) ==
         (IF p.skills # <<>>
          THEN <<[label |-> "Claims to be good at",
                  items |-> LastUpTo(Unique(p.skills), 3)]>> ELSE <<>>)
      \o (IF p.weaknesses # <<>>
          THEN <<[label |-> "Has revealed weaknesses / slip-ups",
                  items |-> LastUpTo(Unique(p.weaknesses), 3)]>> ELSE <<>>)
      \o (IF p.themes # <<>>
          THEN <<[label |-> "Recurring topics",
                  items |-> MostCommon(p.themes, 3)]>> ELSE <<>>)
      \o (IF p.traits # <<>>
          THEN <<[label |-> "Personality signals",
                  items |-> MostCommon(p.traits, 2)]>> ELSE <<>>)

\* UserProfile.to_prompt_snippet: the labelled parts; <<>> is the empty string.
ToPromptSnippet(p) ==
    IF p.turn_count < 2 THEN <<>>
    ELSE (IF p.skills # <<>>
          THEN <<[label |-> "Claims to be good at",
                  items |-> LastUpTo(Unique(p.skills), 3)]>> ELSE <<>>)
      \o (IF p.weaknesses # <<>>
          THEN <<[label |-> "Has revealed weaknesses / slip-ups",
                  items |-> LastUpTo(Unique(p.weaknesses), 3)]>> ELSE <<>>)
      \o (IF p.themes # <<>>
          THEN <<[label |-> "Recurring topics",
                  items |-> MostCommon(p.themes, 3)]>> ELSE <<>>)
      \o (IF p.traits # <<>>
          THEN <<[label |-> "Personality signals",
                  items |-> MostCommon(p.traits, 2)]>> ELSE <<>>)

\* Mutant of ProfileToDict: the dict has no "traits" key.
ProfileToDictNoTraits(p) ==
    [skills |-> p.skills, weaknesses |-> p.weaknesses, themes |-> p.themes,
     turn_count |-> p.turn_count]

\* UserProfile.to_dict
ProfileToDict(p) ==
    [skills |-> p.skills, weaknesses |-> p.weaknesses, themes |-> p.themes,
     traits |-> p.traits, turn_count |-> p.turn_count]

\* data.get(key, default)
DictGet(data, key, default) ==
    IF key \in DOMAIN data THEN data[key] ELSE default

\* UserProfile.from_dict
ProfileFromDict(data) ==
    [skills     |-> DictGet(data, "skills", <<>>),
     weaknesses |-> DictGet(data, "weaknesses", <<>>),
     themes     |-> DictGet(data, "themes", <<>>),
     traits     |-> DictGet(data, "traits", <<>>),
     turn_count |-> DictGet(data, "turn_count", 0)]

\* Mutant of ProfileReset: the lists and counters are cleared, the count kept.
ProfileResetKeepsCount(p) ==
    [skills |-> <<>>, weaknesses |-> <<>>, themes |-> <<>>, traits |-> <<>>,
     turn_count |-> p.turn_count]

\* UserProfile.reset
ProfileReset(p) ==
    [skills |-> <<>>, weaknesses |-> <<>>, themes |-> <<>>, traits |-> <<>>,
     turn_count |-> 0]

\* ---- the methods of one UserProfile, called in any order

LongReply == "You call that code? My toaster writes better."

ProfileMessages ==
    {"", "hi", "I am a Python developer", "fix my bug now",
     "why does my code hate me?", "I built my app and I know my code"}

BotReplies == {"", "nice try", LongReply}

\* profile.update(user_msg, bot_reply)
ProfUpdate(user_msg, bot_reply) ==
    /\ prof_calls < MaxProfileCalls
    /\ prof_calls' = prof_calls + 1
    /\ LET upd == ProfileUpdate(prof, user_msg, bot_reply)
       IN  /\ prof' = upd.profile
           /\ prof_score' = upd.importance
    /\ prof_last' = "update"
    /\ prof_snippet' = <<>>
    /\ prof_dict' = <<>>
    /\ prof_copy' = <<>>
    /\ UNCHANGED allButProf

\* profile.to_prompt_snippet()
ProfSnippet ==
    /\ prof_snippet' = ToPromptSnippet(prof)
    /\ prof_last' = "to_prompt_snippet"
    /\ prof_dict' = <<>>
    /\ prof_copy' = <<>>
    /\ UNCHANGED <<prof, prof_score, prof_calls, allButProf>>

\* profile.to_dict()
ProfToDict ==
    /\ prof_dict' = <<ProfileToDict(prof)>>
    /\ prof_last' = "to_dict"
    /\ prof_snippet' = <<>>
    /\ prof_copy' = <<>>
    /\ UNCHANGED <<prof, prof_score, prof_calls, allButProf>>

\* UserProfile.from_dict(profile.to_dict())
ProfRoundTrip ==
    /\ prof_copy' = <<ProfileFromDict(ProfileToDict(prof))>>
    /\ prof_last' = "from_dict"
    /\ prof_snippet' = <<>>
    /\ prof_dict' = <<>>
    /\ UNCHANGED <<prof, prof_score, prof_calls, allButProf>>

\* profile.reset()
ProfReset ==
    /\ prof' = ProfileReset(prof)
    /\ prof_last' = "reset"
    /\ prof_snippet' = <<>>
    /\ prof_dict' = <<>>
    /\ prof_copy' = <<>>
    /\ UNCHANGED <<prof_score, prof_calls, allButProf>>

ProfInit ==
    /\ TrimIdle
    /\ MemEmpty
    /\ RagIdle
    /\ ApiIdle
    /\ AppIdle
    /\ ProfIdle

ProfNext ==
    \/ \E m \in ProfileMessages, r \in BotReplies : ProfUpdate(m, r)
    \/ ProfSnippet
    \/ ProfToDict
    \/ ProfRoundTrip
    \/ ProfReset

SpecProfile == ProfInit /\ [][ProfNext]_vars

\* ------------------------------------------------------ utils/roast_mode.py

\* build_adaptive_prompt: the base prompt alone, or with the profile block.
BuildAdaptivePrompt(base_system_prompt, profile_snippet) ==
    IF profile_snippet = <<>>
    THEN [base |-> base_system_prompt, adaptive |-> <<>>]
    ELSE [base |-> base_system_prompt, adaptive |-> profile_snippet]

\* ------------------------------------------------------------ database.py
\* The session's rows of each table; ok says whether sqlite3 can open the file.

\* add_chat_entry: the insert, or the sqlite3.Error it swallows.
AddChatEntry(rows, user_msg, bot_msg, importance, ok) ==
    [raised |-> FALSE,
     rows |-> IF ok THEN Append(rows, [user |-> user_msg, bot |-> bot_msg,
                                       importance |-> Max(0, Min(10, importance))])
                    ELSE rows]

\* clear_chat_history: the delete, with no except clause around it.
ClearChatHistory(rows, ok) ==
    [raised |-> ~ok, rows |-> IF ok THEN <<>> ELSE rows]

\* save_user_profile: the upsert, or the sqlite3.Error it swallows.
SaveUserProfile(row, profile_dict, ok) ==
    [raised |-> FALSE, row |-> IF ok THEN <<profile_dict>> ELSE row]

\* load_user_profile: the stored dict, or None (also on sqlite3.Error).
LoadUserProfile(row, ok) ==
    [raised |-> FALSE, value |-> IF ok THEN row ELSE <<>>]

\* clear_user_profile: the delete, with no except clause around it.
ClearUserProfile(row, ok) ==
    [raised |-> ~ok, row |-> IF ok THEN <<>> ELSE row]

\* --------------------------------------------------------------- app.py

\* Values chat can be called with: strings, and values that are no strings.
Str(text) == [type |-> "str", text |-> text]
NoneInput == [type |-> "NoneType", text |-> "None"]
IntInput == [type |-> "int", text |-> "42"]

InputTexts ==
    {"", "   ", "I am a Python developer", "why does my code hate me?", LongText}

AppInputs == {Str(text) : text \in InputTexts} \cup {NoneInput, IntInput}

LongError == "an error text of 150 characters"

\* len(text)
StrLen(text) ==
    CASE text = ""         -> 0
      [] text = "   "      -> 3
      [] text = "hi"       -> 2
      [] text = LongText   -> 5001
      [] text = LongError  -> 150
      [] text = "I am a Python developer" -> 23
      [] text = "rate limit" -> 10
      [] text = "add_to_memory() got an unexpected keyword argument 'session_id'" -> 63
      [] OTHER             -> 25

\* text.strip()
Strip(text) == IF text = "   " THEN "" ELSE text

MAX_INPUT_CHARS == 5000

EmptyInputMessage ==
    "You sent me nothing? Even your messages are empty, just like your GitHub contribution graph."

TooLongMessage ==
    "Wow, you broke the character limit. That's impressive. Please send a shorter message."

\* bool(user_input) is False
Falsy(user_input) ==
    \/ user_input.type = "NoneType"
    \/ user_input.type = "str" /\ user_input.text = ""

\* Mutant of ValidateInput: the stripped text is not tested for emptiness.
ValidateInputUnstripped(user_input) ==
    IF Falsy(user_input) \/ user_input.type # "str"
    THEN [text |-> "None", err |-> EmptyInputMessage]
    ELSE IF StrLen(Strip(user_input.text)) > MAX_INPUT_CHARS
    THEN [text |-> "None", err |-> TooLongMessage]
    ELSE [text |-> user_input.text, err |-> "None"]

\* Mutant of ValidateInput: the length of the text is not tested.
ValidateInputUnlimited(user_input) ==
    IF Falsy(user_input) \/ user_input.type # "str"
    THEN [text |-> "None", err |-> EmptyInputMessage]
    ELSE IF Strip(user_input.text) = ""
    THEN [text |-> "None", err |-> EmptyInputMessage]
    ELSE [text |-> Strip(user_input.text), err |-> "None"]

\* _validate_input: (cleaned_input, error_message_or_None)
ValidateInput(user_input) ==
    IF Falsy(user_input) \/ user_input.type # "str"
    THEN [text |-> "None", err |-> EmptyInputMessage]
    ELSE IF Strip(user_input.text) = ""
    THEN [text |-> "None", err |-> EmptyInputMessage]
    ELSE IF StrLen(Strip(user_input.text)) > MAX_INPUT_CHARS
    THEN [text |-> "None", err |-> TooLongMessage]
    ELSE [text |-> Strip(user_input.text), err |-> "None"]

\* _get_profile: the session's profile, loaded from the database when absent.
GetProfile(session_profile, saved) ==
    IF session_profile # <<>> THEN session_profile[1]
    ELSE IF saved # <<>> THEN ProfileFromDict(saved[1])
    ELSE NewProfile

\* trim_chat_history as one call: the returned list, or that it raised.
RECURSIVE ImportanceLoop(_, _)
ImportanceLoop(w, budget) ==
    IF LoopExits(w, budget) THEN [raised |-> FALSE, w |-> w]
    ELSE LET r == ImportanceIter(w)
         IN  IF r.raised THEN r ELSE ImportanceLoop(r.w, budget)

TrimChatHistory(history, budget) ==
    IF history = <<>> THEN [raised |-> FALSE, result |-> <<>>]
    ELSE IF CountTokensList(history) <= budget
         THEN [raised |-> FALSE, result |-> ToDicts(history)]
    ELSE LET r == ImportanceLoop(history, budget)
         IN  IF r.raised THEN [raised |-> TRUE, result |-> <<>>]
             ELSE [raised |-> FALSE,
                   result |-> ToDicts(RecencyFallback(r.w, budget))]

APP_TRIM_BUDGET == 3000

\* ---- the read-and-trim step of a chat turn: get_memory, trim_chat_history

\* get_memory: list(_store), a new list of the entries the deque holds.
GetMemory(d) == d

\* The stores add_to_memory builds from no more than n turns: user and
\* assistant entries in pairs, each pair with one importance.
RECURSIVE PairStores(_)
PairStores(n) ==
    IF n = 0 THEN {<<>>}
    ELSE LET shorter == PairStores(n - 1)
         IN  shorter \cup
             {AppendPair(d, u, b, i) :
                 d \in {e \in shorter : Len(e) = 2 * (n - 1)},
                 u \in TrimContents, b \in TrimContents, i \in Importances}

\* The budgets of the trim model, and the one _build_llm_messages passes.
PromptBudgets == Budgets \cup {APP_TRIM_BUDGET}

PromptInit ==
    /\ TrimIdle
    /\ RagIdle
    /\ ApiIdle
    /\ AppIdle
    /\ ProfIdle
    /\ store \in PairStores(MaxLen \div 2) \cup {TestHistory}
    /\ mem_log = store
    /\ mem_calls = 0

\* raw_memory = get_memory(), handed to trim_chat_history with a budget.
PromptRead(budget) ==
    /\ trim_pc = "idle"
    /\ chat_history' = GetMemory(store)
    /\ max_tokens' = budget
    /\ trim_pc' = "start"
    /\ UNCHANGED <<working, trim_result, trim_iters, allButTrim>>

PromptNext ==
    \/ \E budget \in PromptBudgets : PromptRead(budget)
    \/ TrimEnter
    \/ TrimLoopIter
    \/ TrimReturn

SpecPrompt == PromptInit /\ [][PromptNext]_vars

\* The parameters of memory.add_to_memory, in order.
AddToMemoryParams == <<"user_msg", "bot_msg", "importance">>

\* The keyword arguments chat passes to add_to_memory after two positionals.
ChatAddKeywords == {"session_id", "importance"}

\* Python's argument binding: every keyword must name a parameter that the
\* positional arguments have not filled.
KeywordsBind(params, npositional, keywords) ==
    keywords \subseteq {params[i] : i \in (npositional + 1)..Len(params)}

MAX_ERROR_CHARS == 100

\* What a turn ends with: its kind, its text, and for an apology how many
\* characters of the error text follow the prefix.
Result(kind, text) == [kind |-> kind, text |-> text, shown |-> 0]

\* Mutant of Apology: the except clause catches only a failed completion.
ApologyCompletionOnly(error) ==
    IF error \in {"rate limit", LongError}
    THEN [kind |-> "apology", text |-> error,
          shown |-> Min(StrLen(error), MAX_ERROR_CHARS)]
    ELSE [kind |-> "escaped", text |-> error, shown |-> 0]

\* Mutant of Apology: the error text is not cut.
ApologyUncut(error) ==
    [kind |-> "apology", text |-> error, shown |-> StrLen(error)]

\* except Exception as e: "Even I broke trying to roast you. Error: " and
\* str(e)[:100].
Apology(error) ==
    [kind |-> "apology", text |-> error,
     shown |-> Min(StrLen(error), MAX_ERROR_CHARS)]

\* The entries of st.session_state.messages.
UserMessage(text) == [role |-> "user", content |-> <<text>>]
AssistantMessage(texts) == [role |-> "assistant", content |-> texts]

CompletionErrors == {"rate limit", LongError}
AppCompletionOutcomes == Replies \cup CompletionErrors

\* What iterating the stream can raise.
StreamErrors == {"rate limit"}

\* The chunks of a streamed completion, in order; one carries no content.
StreamScript == <<"nice", "", " try">>

\* "".join(reply_parts)
JoinParts(parts) ==
    CASE parts = <<>>               -> ""
      [] parts = <<"nice">>         -> "nice"
      [] parts = <<"nice", " try">> -> "nice try"
      [] OTHER                      -> "nice try"

TypeErrorText == "add_to_memory() got an unexpected keyword argument 'session_id'"

\* add_to_memory(user_input, reply, session_id=..., importance=...) and then
\* save_user_profile(...): what they leave, or the error the first raises.
PersistTurn(user_input, reply, importance, profile, db_ok) ==
    IF KeywordsBind(AddToMemoryParams, 2, ChatAddKeywords)
    THEN [error |-> "None",
          store |-> AppendPair(store, user_input, reply, importance),
          mem_log |-> LogPair(mem_log, user_input, reply, importance),
          db_profile |-> SaveUserProfile(db_profile, ProfileToDict(profile),
                                         db_ok).row]
    ELSE [error |-> TypeErrorText, store |-> store, mem_log |-> mem_log,
          db_profile |-> db_profile]

\* A call of chat (streaming FALSE) or chat_stream (TRUE) up to the
\* completion call: validation and _build_llm_messages. The chat input block
\* is the caller for the values its walrus test lets through; the other
\* values come from a direct call. A turn that ends here returns, or yields,
\* its text.
AppBegin(user_input, outcome, streaming, caller) ==
    /\ app_pc \in {"idle", "done"}
    /\ app_turns < MaxTurns
    /\ caller = "ui" <=> ~Falsy(user_input)
    /\ app_turns' = app_turns + 1
    /\ app_reply' = "None"
    /\ app_caller' = caller
    /\ app_streaming' = streaming
    /\ app_parts' = <<>>
    /\ app_deltas' = 0
    /\ app_raw' = user_input
    /\ app_completions' = 0
    /\ app_before' = [store |-> store, db_profile |-> db_profile,
                      db_chat |-> db_chat,
                      profile |-> GetProfile(sess_profile, db_profile)]
    /\ LET v     == ValidateInput(user_input)
           shown == IF caller = "ui"
                    THEN Append(sess_messages, UserMessage(user_input.text))
                    ELSE sess_messages
           Ends(result) ==
               /\ app_result' = result
               /\ app_yielded' = IF streaming THEN <<result.text>> ELSE <<>>
               /\ sess_messages' = IF caller = "ui"
                                   THEN Append(shown, AssistantMessage(<<result.text>>))
                                   ELSE shown
               /\ app_pc' = "done"
               /\ app_messages' = app_messages
       IN  IF v.err # "None"
           THEN /\ outcome = "ok"
                /\ Ends(Result("canned", v.err))
                /\ UNCHANGED <<sess_profile, app_input, app_importance, ragVars>>
           ELSE LET upd == ProfileUpdate(GetProfile(sess_profile, db_profile),
                                         v.text, "")
                    trimmed == TrimChatHistory(store, APP_TRIM_BUDGET)
                IN  /\ app_input' = v.text
                    /\ sess_profile' = <<upd.profile>>
                    /\ app_importance' = upd.importance
                    /\ RetrieveWhole(outcome)
                    /\ IF outcome # "ok"
                       THEN Ends(Apology(outcome))
                       ELSE IF trimmed.raised
                       THEN Ends(Apology("AttributeError"))
                       ELSE /\ app_messages' =
                                [system  |-> BuildAdaptivePrompt("SYSTEM_PROMPT",
                                                ToPromptSnippet(upd.profile)),
                                 history |-> trimmed.result,
                                 context |-> RetrievedContext(v.text, DEFAULT_TOP_K),
                                 current |-> v.text]
                            /\ sess_messages' = shown
                            /\ app_pc' = IF streaming THEN "stream_create"
                                                      ELSE "completion"
                            /\ app_result' = app_result
                            /\ app_yielded' = <<>>
    /\ UNCHANGED <<profVars, trimVars, memVars, apiVars, db_profile, db_chat, db_last>>

AppChatBegin(user_input, outcome, caller) ==
    AppBegin(user_input, outcome, FALSE, caller)

AppStreamBegin(user_input, outcome, caller) ==
    AppBegin(user_input, outcome, TRUE, caller)

\* chat: the completion call returns or raises; then add_to_memory,
\* save_user_profile and the return, and the chat input block shows the reply.
AppChatComplete(outcome, db_ok) ==
    /\ app_pc = "completion"
    /\ IF outcome \in CompletionErrors
       THEN /\ app_reply' = app_reply
            /\ app_result' = Apology(outcome)
            /\ UNCHANGED <<store, mem_log, db_profile>>
       ELSE LET p == PersistTurn(app_input, outcome, app_importance,
                                 sess_profile[1], db_ok)
            IN  /\ app_reply' = outcome
                /\ store' = p.store
                /\ mem_log' = p.mem_log
                /\ db_profile' = p.db_profile
                /\ app_result' = IF p.error = "None" THEN Result("reply", outcome)
                                                     ELSE Apology(p.error)
    /\ sess_messages' = IF app_caller = "ui"
                        THEN Append(sess_messages, AssistantMessage(<<app_result'.text>>))
                        ELSE sess_messages
    /\ app_completions' = app_completions + 1
    /\ app_pc' = "done"
    /\ UNCHANGED <<profVars, trimVars, mem_calls, ragVars, apiVars, sess_profile, db_chat,
                   app_input, app_importance, app_messages, app_turns, app_caller,
                   app_streaming, app_yielded, app_parts, app_deltas, app_before, app_raw, db_last>>

\* chat_stream: client.chat.completions.create(stream=True) returns the
\* stream, or raises and the apology is yielded.
AppStreamCreate(outcome) ==
    /\ app_pc = "stream_create"
    /\ app_completions' = app_completions + 1
    /\ IF outcome \in CompletionErrors
       THEN /\ app_result' = Apology(outcome)
            /\ app_yielded' = Append(app_yielded, app_result'.text)
            /\ sess_messages' = IF app_caller = "ui"
                                THEN Append(sess_messages, AssistantMessage(app_yielded'))
                                ELSE sess_messages
            /\ app_pc' = "done"
       ELSE /\ app_pc' = "streaming"
            /\ UNCHANGED <<app_result, app_yielded, sess_messages>>
    /\ UNCHANGED <<profVars, trimVars, memVars, ragVars, apiVars, sess_profile, db_profile,
                   db_chat, app_input, app_importance, app_messages, app_reply,
                   app_turns, app_caller, app_streaming, app_parts, app_deltas,
                   app_before, app_raw, db_last>>

\* Mutant of AppStreamChunk: each fragment is stored as soon as it arrives.
AppStreamChunkStored ==
    /\ app_pc = "streaming"
    /\ app_deltas < Len(StreamScript)
    /\ app_deltas' = app_deltas + 1
    /\ LET delta == StreamScript[app_deltas + 1]
       IN  IF delta # ""
           THEN /\ app_parts' = Append(app_parts, delta)
                /\ app_yielded' = Append(app_yielded, delta)
                /\ store' = AppendPair(store, app_input, JoinParts(app_parts'),
                                       app_importance)
           ELSE UNCHANGED <<app_parts, app_yielded, store>>
    /\ UNCHANGED <<profVars, trimVars, mem_log, mem_calls, ragVars, apiVars, sess_profile,
                   sess_messages, db_profile, db_chat, app_pc, app_input,
                   app_importance, app_messages, app_reply, app_result, app_turns,
                   app_caller, app_streaming, app_before, app_raw, app_completions, db_last>>

\* chat_stream: one chunk of the stream; a delta with content is kept in
\* reply_parts and yielded.
AppStreamChunk ==
    /\ app_pc = "streaming"
    /\ app_deltas < Len(StreamScript)
    /\ app_deltas' = app_deltas + 1
    /\ LET delta == StreamScript[app_deltas + 1]
       IN  IF delta # ""
           THEN /\ app_parts' = Append(app_parts, delta)
                /\ app_yielded' = Append(app_yielded, delta)
           ELSE UNCHANGED <<app_parts, app_yielded>>
    /\ UNCHANGED <<profVars, trimVars, memVars, ragVars, apiVars, sess_profile,
                   sess_messages, db_profile, db_chat, app_pc, app_input,
                   app_importance, app_messages, app_reply, app_result, app_turns,
                   app_caller, app_streaming, app_before, app_raw, app_completions, db_last>>

\* chat_stream: the stream raises while it is iterated; the apology is
\* yielded after the fragments already out.
AppStreamRaise(error) ==
    /\ app_pc = "streaming"
    /\ app_result' = Apology(error)
    /\ app_yielded' = Append(app_yielded, app_result'.text)
    /\ sess_messages' = IF app_caller = "ui"
                        THEN Append(sess_messages, AssistantMessage(app_yielded'))
                        ELSE sess_messages
    /\ app_pc' = "done"
    /\ UNCHANGED <<profVars, trimVars, memVars, ragVars, apiVars, sess_profile, db_profile,
                   db_chat, app_input, app_importance, app_messages, app_reply,
                   app_turns, app_caller, app_streaming, app_parts, app_deltas,
                   app_before, app_raw, app_completions, db_last>>

\* chat_stream: the consumer stops iterating and the generator is closed;
\* GeneratorExit is no Exception, so nothing more runs (in the chat input
\* block the script run is over, and the reply is not added to the messages).
AppStreamAbandon ==
    /\ app_pc = "streaming"
    /\ app_result' = Result("abandoned", "")
    /\ app_pc' = "done"
    /\ UNCHANGED <<profVars, trimVars, memVars, ragVars, apiVars, sess_profile,
                   sess_messages, db_profile, db_chat, app_input, app_importance,
                   app_messages, app_reply, app_yielded, app_turns, app_caller,
                   app_streaming, app_parts, app_deltas, app_before, app_raw, app_completions,
                   db_last>>

\* chat_stream: the stream is exhausted; a non-empty reply goes to
\* add_to_memory and save_user_profile, and an error there is yielded.
AppStreamEnd(db_ok) ==
    /\ app_pc = "streaming"
    /\ LET reply == JoinParts(app_parts)
           p     == PersistTurn(app_input, reply, app_importance,
                                sess_profile[1], db_ok)
       IN  /\ app_reply' = reply
           /\ IF reply = ""
              THEN /\ app_result' = Result("streamed", reply)
                   /\ UNCHANGED <<store, mem_log, db_profile, app_yielded>>
              ELSE /\ store' = p.store
                   /\ mem_log' = p.mem_log
                   /\ db_profile' = p.db_profile
                   /\ IF p.error = "None"
                      THEN /\ app_result' = Result("streamed", reply)
                           /\ app_yielded' = app_yielded
                      ELSE /\ app_result' = Apology(p.error)
                           /\ app_yielded' = Append(app_yielded, app_result'.text)
    /\ sess_messages' = IF app_caller = "ui"
                        THEN Append(sess_messages, AssistantMessage(app_yielded'))
                        ELSE sess_messages
    /\ app_pc' = "done"
    /\ UNCHANGED <<profVars, trimVars, mem_calls, ragVars, apiVars, sess_profile, db_chat,
                   app_input, app_importance, app_messages, app_turns, app_caller,
                   app_streaming, app_parts, app_deltas, app_before, app_raw, app_completions,
                   db_last>>

\* memory.add_to_memory called with positional arguments only, as
\* rehydrate_memory and the tests call it, before the turns of a session: the
\* one way an entry gets into the store of the process app.py runs in.
AppAddToMemory ==
    /\ app_pc = "idle"
    /\ store = <<>>
    /\ store' = AppendPair(store, "hi", "nice try", 1)
    /\ mem_log' = LogPair(mem_log, "hi", "nice try", 1)
    /\ UNCHANGED <<profVars, trimVars, mem_calls, ragVars, apiVars, appVars>>

\* The Clear Chat button: messages, memory, stored history and profile are
\* cleared and the script reruns, which puts a profile in the session again.
\* An exception of clear_chat_history or clear_user_profile ends the handler.
\* Nothing of the turn before is left in the new script run.
AppClearChat(db_ok) ==
    /\ app_pc \in {"idle", "done"}
    /\ sess_messages' = <<>>
    /\ store' = <<>>
    /\ mem_log' = <<>>
    /\ LET history == ClearChatHistory(db_chat, db_ok)
           profile == ClearUserProfile(db_profile, db_ok)
       IN  IF history.raised
           THEN /\ db_last' = [op |-> "clear_chat_history", raised |-> TRUE]
                /\ UNCHANGED <<db_chat, db_profile, sess_profile>>
           ELSE IF profile.raised
           THEN /\ db_last' = [op |-> "clear_user_profile", raised |-> TRUE]
                /\ db_chat' = history.rows
                /\ UNCHANGED <<db_profile, sess_profile>>
           ELSE /\ db_chat' = history.rows
                /\ db_profile' = profile.row
                /\ sess_profile' =
                       <<GetProfile(<<>>, LoadUserProfile(db_profile', db_ok).value)>>
                /\ db_last' = [op |-> "load_user_profile", raised |-> FALSE]
    /\ app_pc' = "idle"
    /\ app_input' = "None"
    /\ app_importance' = 0
    /\ app_messages' = <<>>
    /\ app_reply' = "None"
    /\ app_result' = Result("none", "")
    /\ app_caller' = "none"
    /\ app_streaming' = FALSE
    /\ app_yielded' = <<>>
    /\ app_parts' = <<>>
    /\ app_deltas' = 0
    /\ app_before' = [store |-> <<>>, db_profile |-> <<>>, db_chat |-> <<>>,
                      profile |-> NewProfile]
    /\ app_raw' = [type |-> "none", text |-> ""]
    /\ app_completions' = 0
    /\ UNCHANGED <<profVars, trimVars, mem_calls, ragVars, apiVars, app_turns>>

AppInit ==
    /\ TrimIdle
    /\ MemEmpty
    /\ ApiIdle
    /\ AppIdle
    /\ ProfIdle
    /\ corpus = <<"c1", "c2">>
    /\ rag_lock = "free"
    /\ rag_initialized = FALSE
    /\ global_model = "None"
    /\ global_index = <<>>
    /\ global_chunks = <<>>
    /\ rag_pc = [t \in RagThreads |-> "idle"]
    /\ rag_query = [t \in RagThreads |-> NoQuery]
    /\ rag_embedding = [t \in RagThreads |-> <<>>]
    /\ rag_result = [t \in RagThreads |-> NoResult]
    /\ rag_calls = [t \in RagThreads |-> 0]
    /\ model_loads = 0
    /\ index_builds = 0
    /\ index_sets = 0
    /\ init_failures = 0

AppCallers == {"ui", "direct"}

AppNext ==
    \/ \E u \in AppInputs, o \in RetrieveOutcomes, c \in AppCallers :
           AppChatBegin(u, o, c)
    \/ \E u \in AppInputs, o \in RetrieveOutcomes, c \in AppCallers :
           AppStreamBegin(u, o, c)
    \/ \E o \in AppCompletionOutcomes, ok \in BOOLEAN : AppChatComplete(o, ok)
    \/ \E o \in {"ok"} \cup CompletionErrors : AppStreamCreate(o)
    \/ AppStreamChunk
    \/ \E e \in StreamErrors : AppStreamRaise(e)
    \/ AppStreamAbandon
    \/ \E ok \in BOOLEAN : AppStreamEnd(ok)
    \/ \E ok \in BOOLEAN : AppClearChat(ok)
    \/ AppAddToMemory

SpecApp == AppInit /\ [][AppNext]_vars

\* ---- claims about a chat turn (checked under SpecApp)

\* C1: when a call of chat with valid input is over and its completion call
\* succeeded, chat has returned the reply text, and the last two entries of
\* the memory store are the user message and that reply, both with the
\* importance computed for the turn.
C1_TurnStored ==
    (app_pc = "done" /\ ~app_streaming /\ app_reply # "None") =>
        /\ app_result = Result("reply", app_reply)
        /\ Len(store) >= 2
        /\ LastN(store, 2) =
              <<ScoredMessage("user", app_input, app_importance),
                ScoredMessage("assistant", app_reply, app_importance)>>

\* C14: a call of chat or chat_stream that is over has let no exception
\* escape, whatever the input was and whichever step failed: chat has
\* returned a string (a canned message, the reply or an apology), and
\* chat_stream has finished after yielding strings or was closed by its
\* consumer.
C14_NoEscape ==
    app_pc = "done" =>
        /\ app_result.kind # "escaped"
        /\ ~app_streaming => app_result.kind \in {"canned", "reply", "apology"}
        /\ app_streaming =>
              /\ app_result.kind \in {"canned", "streamed", "apology", "abandoned"}
              /\ app_result.kind \in {"canned", "apology"} =>
                    app_yielded # <<>> /\ app_yielded[Len(app_yielded)] = app_result.text

\* A streamed turn whose persistence step raised, after fragments were out.
C14_Witness ==
    /\ app_pc = "done"
    /\ app_streaming
    /\ app_result.kind = "apology"
    /\ app_result.text = TypeErrorText
    /\ Len(app_yielded) = 3

\* C15: when the completion call of a non-streaming turn raised, chat has
\* returned the apology with at most the first 100 characters of the error
\* text (all of it when it is shorter), and the memory store is what it was
\* when the turn began.
C15_FailedCallNotStored ==
    (app_pc = "done" /\ ~app_streaming /\ app_result.text \in CompletionErrors) =>
        /\ app_result.kind = "apology"
        /\ app_result.shown <= MAX_ERROR_CHARS
        /\ app_result.shown <= StrLen(app_result.text)
        /\ app_result.shown = MAX_ERROR_CHARS \/ app_result.shown = StrLen(app_result.text)
        /\ store = app_before.store

\* The error text is longer than 100 characters and the store held a pair.
C15_Witness ==
    /\ app_pc = "done"
    /\ ~app_streaming
    /\ app_result.text = LongError
    /\ app_result.shown = 100
    /\ Len(store) = 2

\* C16: while a streaming turn is creating or consuming its stream, and
\* after it ended because the stream raised or the consumer abandoned it, the
\* memory store and the stored rows are what they were when the turn began;
\* and no step of a streaming turn takes back a fragment already yielded.
C16_NoPartialPersisted ==
    /\ []((/\ app_streaming
            /\ \/ app_pc \in {"stream_create", "streaming"}
               \/ app_pc = "done" /\ app_result.kind = "abandoned"
               \/ app_pc = "done" /\ app_result.text \in StreamErrors \cup CompletionErrors)
            => /\ store = app_before.store
               /\ db_profile = app_before.db_profile
               /\ db_chat = app_before.db_chat)
    /\ [][(app_streaming /\ app_pc \in {"stream_create", "streaming"}) =>
             /\ Len(app_yielded') >= Len(app_yielded)
             /\ SubSeq(app_yielded', 1, Len(app_yielded)) = app_yielded]_vars

\* The stream raised after both fragments were yielded, with a pair in the
\* store from before the turn.
C16_Witness ==
    /\ app_pc = "done"
    /\ app_streaming
    /\ app_result.text \in StreamErrors
    /\ Len(app_yielded) = 3
    /\ app_parts = <<"nice", " try">>
    /\ Len(store) = 2

\* C17: when a turn whose completion call succeeded is over, the newest
\* stored chat-history row of the session holds the turn's user text, reply
\* and importance, and the stored profile row is the session's profile.
C17_TurnPersisted ==
    (app_pc = "done" /\ app_reply \notin {"None", ""}) =>
        /\ db_chat # <<>>
        /\ db_chat[Len(db_chat)] =
              [user |-> app_input, bot |-> app_reply, importance |-> app_importance]
        /\ db_profile = <<ProfileToDict(sess_profile[1])>>

\* C18: no database operation the application performs raises: with the
\* database unavailable the operation still returns to its caller.
C18_StorageFailureSwallowed ==
    ~db_last.raised

\* C19: a turn called with the empty string or with only whitespace is over
\* at once: it has returned (or yielded) the canned empty-input message and
\* made no completion call.
C19_BlankInputCanned ==
    (app_raw.type = "str" /\ Strip(app_raw.text) = "") =>
        /\ app_pc = "done"
        /\ app_result = Result("canned", EmptyInputMessage)
        /\ app_completions = 0

\* A whitespace-only message typed into the chat input, answered by chat.
C19_Witness ==
    /\ app_pc = "done"
    /\ ~app_streaming
    /\ app_raw = Str("   ")
    /\ app_caller = "ui"
    /\ app_result.text = EmptyInputMessage

\* ---- retrieval failures (checked under SpecRag)

\* C20: no call of retrieve_context ends with an exception leaving it,
\* whichever of its steps failed.
C20_NeverRaises ==
    \A t \in RagThreads : rag_pc[t] # "raised"

\* C21: with no text in the data folder, a call of retrieve_context that
\* returns has returned the one fallback string load_and_chunk supplies,
\* once, whatever the query and top_k.
C21_EmptyCorpusSentinel ==
    \A t \in RagThreads :
        (rag_pc[t] = "done" /\ corpus = LoadAndChunk(<<>>)) =>
            rag_result[t] = Returned(<<"No data">>)

\* C22: with text in the data folder, a call of retrieve_context that
\* returns has returned at most top_k chunks, each one of the indexed
\* chunks, in order of non-decreasing distance to the query's embedding.
C22_TopKNearest ==
    \A t \in RagThreads :
        (rag_pc[t] = "done" /\ corpus # LoadAndChunk(<<>>)) =>
            LET got == rag_result[t].chunks
                qe  == Embed(rag_query[t].query)
            IN  /\ Len(got) <= rag_query[t].top_k
                /\ \A i \in 1..Len(got) : InSeq(got[i], corpus)
                /\ \A i, j \in 1..Len(got) :
                       i < j => L2(Embed(got[i]), qe) <= L2(Embed(got[j]), qe)

\* ---- claims about UserProfile (checked under SpecProfile)

\* C23: the score update returns is an integer from 0 to 10, for every
\* message and bot reply and from every profile the calls can reach.
C23_ScoreInRange ==
    prof_score \in 0..10

\* A message whose bonuses add up to more than 10, scored with a long reply.
C23_Witness ==
    /\ prof_last = "update"
    /\ prof_score = 10
    /\ Len(prof.skills) = 1
    /\ Len(prof.weaknesses) = 1
    /\ CounterGet(prof.themes, "coding") > 3

\* C24: every update call raises turn_count by exactly 1, to_prompt_snippet,
\* to_dict and the round trip leave it as it is, reset sets it to 0, and
\* only reset ever lowers it.
C24_TurnCountSteps ==
    [][/\ prof_last' = "update" => prof'.turn_count = prof.turn_count + 1
       /\ prof_last' \in {"to_prompt_snippet", "to_dict", "from_dict"} =>
              prof'.turn_count = prof.turn_count
       /\ prof_last' = "reset" => prof'.turn_count = 0
       /\ prof'.turn_count < prof.turn_count => prof_last' = "reset"]_vars

\* Two updates, a reset, and an update again.
C24_Witness ==
    /\ prof_last = "update"
    /\ prof_calls = 3
    /\ prof.turn_count = 1

\* C25: after any updates on a fresh profile, neither skills nor weaknesses
\* holds the same snippet twice, however often a message was repeated.
C25_NoDuplicateSnippets ==
    /\ \A i, j \in 1..Len(prof.skills) : i # j => prof.skills[i] # prof.skills[j]
    /\ \A i, j \in 1..Len(prof.weaknesses) :
           i # j => prof.weaknesses[i] # prof.weaknesses[j]

\* The same message, with four skill hits, given to update three times.
C25_Witness ==
    /\ prof.turn_count = 3
    /\ prof.skills = <<"I built my app and I know my code">>
    /\ prof.weaknesses = <<"I built my app and I know my code">>
    /\ CounterGet(prof.themes, "coding") = 3

C28_EmptyFirstTwoTurns ==
    (prof_last = "to_prompt_snippet" /\ prof.turn_count \in {1, 2}) =>
        prof_snippet = <<>>

\* ---- claims about Clear Chat (checked under SpecApp)

\* C29: every click on Clear Chat, the first as well as one repeated right
\* after it, ends without an error and leaves the memory store empty, no
\* stored chat history, no stored profile and a fresh profile in the session.
\* (A step that ends at "idle" is a click on Clear Chat unless it added to
\* the store.)
C29_ClearCompleteIdempotent ==
    [][(app_pc' = "idle" /\ (app_pc # "idle" \/ store' = <<>>)) =>
          /\ ~db_last'.raised
          /\ store' = <<>>
          /\ sess_messages' = <<>>
          /\ db_chat' = <<>>
          /\ db_profile' = <<>>
          /\ sess_profile' = <<NewProfile>>]_vars

\* ---- claims about the removal order of trim_chat_history (SpecTrim)

\* C30: every step that shortens the working list removes one message that
\* was not protected and had the lowest importance among the non-protected
\* messages, the oldest of them on a tie; so in the test history
\* [1, 1, 10, 10, 2, 2, 5, 5] no entry of importance 2 or 5 is gone while
\* an entry of importance 1 is left.
C30_LowestImportanceFirst ==
    /\ [][(trim_pc = "loop" /\ Len(working') < Len(working)) =>
            \E i \in Candidates(working) :
                /\ working' = PopAt(working, i)
                /\ \A j \in Candidates(working) :
                       \/ GetImportance(working[i]) < GetImportance(working[j])
                       \/ /\ GetImportance(working[i]) = GetImportance(working[j])
                          /\ i <= j]_vars
    /\ []((chat_history = TestHistory /\ trim_pc = "loop") =>
            \/ Cardinality({i \in 1..Len(working) :
                               GetImportance(working[i]) \in {2, 5}}) = 4
            \/ \A i \in 1..Len(working) : GetImportance(working[i]) # 1)

\* Of the test history both entries of importance 1 and then one of
\* importance 2 have been removed, the entries of importance 10 are kept.
C30_Witness ==
    /\ chat_history = TestHistory
    /\ trim_pc = "loop"
    /\ Len(working) = 5
    /\ GetImportance(working[1]) = 10
    /\ GetImportance(working[3]) = 2

\* C31: when a step of the removal loop takes out a message whose immediate
\* successor has the complementary role and is itself not protected, the
\* successor goes in the same step unless fewer than 2 messages would be
\* left; and no step takes a protected message out.
C31_PairRemovedTogether ==
    [][(trim_pc = "loop" /\ Len(working') < Len(working)) =>
          LET drop == DropIdx(working)
              nxt  == drop + 1
          IN  /\ (/\ nxt \in Candidates(working)
                  /\ Complementary(working[drop].role, working[nxt].role)
                  /\ Len(working) - 2 >= MIN_MESSAGES)
                    => working' = PopAt(PopAt(working, nxt), drop)
              /\ \A k \in 0..(PROTECTED_TAIL - 1) :
                     working'[Len(working') - k] = working[Len(working) - k]]_vars

\* ---- claims about the scoring rules of UserProfile.update (SpecProfile)

\* C32: the score update returns counts the self-disclosure rule as 3 points
\* for a message that matches the pattern, however often it matches, and as
\* 0 otherwise, and the self-deprecation rule in the same way.
C32_ThreePointsPerRule ==
    [][\A user_msg \in ProfileMessages, bot_reply \in BotReplies :
          LET upd     == ProfileUpdate(prof, user_msg, bot_reply)
              f       == Features(user_msg)
              added   == (IF f.skill_hits > 0 THEN 3 ELSE 0)
                         + (IF f.weak_hits > 0 THEN 3 ELSE 0)
                         + ThemesLoop(prof.themes, f.themes, 0).score
                         + (IF f.emotion THEN 2 ELSE 0) + Len(f.traits)
                         + (IF f.question THEN 1 ELSE 0)
              short   == IF Words(user_msg) < 4 THEN Max(0, added - 1) ELSE added
              engaged == IF bot_reply # "" /\ Words(bot_reply) > 5
                         THEN Min(10, short + 1) ELSE short
          IN  (/\ prof_last' = "update"
               /\ prof_calls' = prof_calls + 1
               /\ prof' = upd.profile
               /\ prof_score' = upd.importance)
                 => prof_score' = Min(engaged, 10)]_vars

\* C33: in update the short-message penalty (1 off, not below 0, for fewer
\* than 4 words) comes after every additive bonus and before the engagement
\* bonus, which comes last (+1 for a reply of more than 5 words, not above
\* 10); so a short message with no other signal and a substantive reply
\* scores exactly 1, and a message already at 10 stays at 10.
C33_PenaltyThenEngagement ==
    [][\A user_msg \in ProfileMessages, bot_reply \in BotReplies :
          LET upd     == ProfileUpdate(prof, user_msg, bot_reply)
              f       == Features(user_msg)
              added   == 3 * f.skill_hits + 3 * f.weak_hits
                         + ThemesLoop(prof.themes, f.themes, 0).score
                         + (IF f.emotion THEN 2 ELSE 0) + Len(f.traits)
                         + (IF f.question THEN 1 ELSE 0)
              penalty == IF Words(user_msg) < 4 THEN 1 ELSE 0
              bonus   == IF Words(bot_reply) > 5 THEN 1 ELSE 0
          IN  (/\ prof_last' = "update"
               /\ prof_calls' = prof_calls + 1
               /\ prof' = upd.profile
               /\ prof_score' = upd.importance)
                 => /\ prof_score' = Min(10, Max(0, added - penalty) + bonus)
                    /\ (added = 0 /\ penalty = 1 /\ bonus = 1) => prof_score' = 1
                    /\ (added >= 10 /\ penalty = 0) => prof_score' = 10]_vars

\* A short message with no signal got a substantive reply and scored 1.
C33_Witness ==
    /\ prof_last = "update"
    /\ prof_score = 1
    /\ prof.turn_count = 1
    /\ prof.skills = <<>>
    /\ prof.weaknesses = <<>>
    /\ prof.themes = <<>>
    /\ prof.traits = <<>>

\* ---- the size of retrieve_context's result (SpecRag)

\* C34: a call of retrieve_context on a corpus of fewer chunks than top_k
\* that returns has returned as many chunks as the corpus holds, no chunk
\* twice: a result position the index left unfilled yields no chunk.
C34_SmallCorpusEachChunkOnce ==
    \A t \in RagThreads :
        (rag_pc[t] = "done" /\ Len(corpus) < rag_query[t].top_k) =>
            LET got == rag_result[t].chunks
            IN  /\ Len(got) = Len(corpus)
                /\ \A i, j \in 1..Len(got) : got[i] = got[j] => i = j

\* ---- claims about how trim_chat_history ends (SpecTrim)

\* C35: on a list of ScoredMessage objects trim_chat_history never raises,
\* whatever the budget and whichever message has the lowest importance.
C35_ScoredListsNeverRaise ==
    (\A i \in 1..Len(chat_history) : chat_history[i].kind = "scored")
        => trim_pc # "raised"

\* C36 as stated: the recency fallback loop removes nothing, because the
\* list the importance-aware loop leaves behind is within the budget or has
\* exactly 2 messages.
C36_Original ==
    /\ [][(trim_pc = "loop" /\ trim_pc' = "done") => working' = working]_vars
    /\ []((trim_pc = "loop" /\ LoopExits(working, max_tokens)) =>
            \/ CountTokensList(working) <= max_tokens
            \/ Len(working) = 2)

\* C36 amended: the recency fallback loop removes nothing, because the list
\* the importance-aware loop leaves behind is within the budget or has at
\* most 2 messages (an over-budget input of one message has one).
C36_FallbackNeverRemoves ==
    /\ [][(trim_pc = "loop" /\ trim_pc' = "done") => working' = working]_vars
    /\ []((trim_pc = "loop" /\ LoopExits(working, max_tokens)) =>
            \/ CountTokensList(working) <= max_tokens
            \/ Len(working) <= MIN_MESSAGES)

\* The removal loop took a list of 4 down to 2 messages that are still over
\* the budget, and the call returned those 2.
C36_Witness ==
    /\ trim_pc = "done"
    /\ Len(chat_history) = 4
    /\ Len(working) = 2
    /\ CountTokensList(working) > max_tokens
    /\ Len(trim_result) = 2

\* C37: trim_chat_history terminates for every input and budget: an
\* iteration of the removal loop that is followed by another has removed at
\* least one message, the loop is entered at most len(input) - 2 times, and
\* the call comes to its end.
C37_Terminates ==
    /\ [][(trim_pc = "loop" /\ trim_pc' = "loop") =>
             Len(working') < Len(working)]_vars
    /\ [](trim_iters <= Max(0, Len(chat_history) - MIN_MESSAGES))
    /\ <>(trim_pc \in {"done", "raised"})

\* The removal loop ran the most it can on a list of 4: twice.
C37_Witness ==
    /\ trim_pc = "done"
    /\ Len(chat_history) = 4
    /\ trim_iters = 2

\* ---- the read-and-trim step of a chat turn (SpecPrompt)

\* C38: trimming for the prompt leaves stored history alone: no step of the
\* read-and-trim changes the memory store, no step of trim_chat_history
\* changes the list passed to it, and when the call has ended that list
\* still holds the store's entries in the store's order, however many
\* messages were left out of the result.
C38_StoreUntouched ==
    /\ [][/\ store' = store
          /\ trim_pc # "idle" => chat_history' = chat_history]_vars
    /\ [](trim_pc \in {"done", "raised"} =>
            /\ chat_history = store
            /\ store = mem_log)

\* The trim returned fewer messages than the store of two turns holds.
C38_Witness ==
    /\ trim_pc = "done"
    /\ Len(store) = 4
    /\ Len(trim_result) < Len(store)
    /\ chat_history = store

\* ---- what a turn that does not complete leaves behind (SpecApp)

\* C39: a call of chat or chat_stream with an input that validation rejects
\* (empty, only whitespace, not a string, or longer than 5000 characters
\* once stripped) leaves the user profile, the memory store and the stored
\* rows exactly as they were.
C39_RejectedTurnChangesNothing ==
    [][(/\ app_turns' = app_turns + 1
        /\ \/ app_raw'.type # "str"
           \/ Strip(app_raw'.text) = ""
           \/ StrLen(Strip(app_raw'.text)) > MAX_INPUT_CHARS)
          => /\ sess_profile' = sess_profile
             /\ store' = store
             /\ db_profile' = db_profile
             /\ db_chat' = db_chat]_vars

\* After a turn that went through the pipeline, chat_stream was called with
\* a message over the limit and answered with the canned reply; the store
\* is not empty and the profile has counted the one earlier turn.
C39_Witness ==
    /\ app_pc = "done"
    /\ app_streaming
    /\ app_raw = Str(LongText)
    /\ app_result.text = TooLongMessage
    /\ store # <<>>
    /\ sess_profile # <<>>
    /\ sess_profile[1].turn_count = 1

\* C40: when the completion call of a turn has failed, the session's
\* UserProfile is what it was before the turn: turn_count, skills,
\* weaknesses, theme counts and trait counts.
C40_FailedTurnProfileUnchanged ==
    (/\ app_pc = "done"
     /\ app_result.kind = "apology"
     /\ app_result.text \in CompletionErrors \cup StreamErrors)
        => sess_profile = <<app_before.profile>>

====
